---- MODULE Spec2Model ----
(***************************************************************************)
(* Model of the operator-assistant RAG pipeline of solaris-energy-poc:     *)
(* the LangGraph workflow Lambda (lambda/agent-workflow/handler.py), its   *)
(* search helper (opensearch_helper.py) and the retrieval tool Lambda      *)
(* (lambda/agent-tools/retrieval/handler.py).                              *)
(*                                                                         *)
(* Conventions                                                             *)
(*  - a text is a sequence of pieces (strings); concatenation is \o and    *)
(*    the empty string is << >>;                                           *)
(*  - an entry of the errors list and a line of the context are tuples of  *)
(*    strings, the literal parts and the interpolated values;              *)
(*  - scores in [0,1] with three decimals are integers in thousandths;     *)
(*  - Python None is the string NONE.                                      *)
(***************************************************************************)
EXTENDS Integers, Sequences, FiniteSets, TLC

VARIABLES
    env,        \* process environment and model configuration (read at import)
    pc,         \* position of the workflow Lambda's invocation
    payload,    \* the request payload of the current invocation
    state,      \* AgentState, the record threaded through the graph nodes
    trace,      \* graph nodes entered during the current invocation, in order
    calls,      \* requests issued to external collaborators, in order
    result,     \* what lambda_handler returned (or that it raised)
    tool,       \* what the retrieval tool Lambda returned last
    probe,      \* arguments and results of a helper function applied on its own
    store,      \* the sessions table: session_id -> stored messages
    chat        \* the request the chat API handler (chat.py) is serving

vars == <<env, pc, payload, state, trace, calls, result, tool, probe, store, chat>>

NONE == "None"

----------------------------------------------------------------------------
(* Bounds of the model                                                      *)

\* most hits the search returns in the model (the code asks for top_k = 5)
MaxHits == 2

\* raw _score values of hits; 3 / 80 = 0.0375 is halfway between two
\* thousandths
Scores == {-1, 0, 3, 80}

\* texts a reasoning backend can produce
Drafts == {<<"draft answer">>}

\* longest citation list combine_confidence is applied to on its own
MaxCitations == 2

\* most words of a text detect_turbine_model is applied to on its own
MaxWords == 3

\* relevance scores (thousandths) of those citations: 0.02 + 0.68 and
\* 0.263 + 0.437 have the same mean, and 0.55 + 0.35 * 0.35 is halfway
\* between two thousandths
RelevanceValues == {0, 20, 263, 437, 680, 1000}

----------------------------------------------------------------------------
(* Fixed texts of handler.py                                                *)

NO_DOCS_CONTEXT == <<"No relevant documentation found in the knowledge base.">>
UNAVAILABLE_CONTEXT == <<"Knowledge retrieval is currently unavailable.">>
FAILED_CONTEXT == <<"Knowledge retrieval failed.">>
FAILURE_SENTINEL == <<"Unable to generate a response at this time.">>
SAFE_REFUSAL == <<"I am unable to provide that information safely. Please consult the turbine supervisor or engineering support.">>
LOW_CONFIDENCE_WARNING == <<"\n\nConfidence in the retrieved information is below the required threshold. Please verify with a senior operator.">>

----------------------------------------------------------------------------
(* Generic helpers                                                          *)

Range(s) == {s[i] : i \in DOMAIN s}

IsPrefix(s, t) == Len(s) <= Len(t) /\ SubSeq(t, 1, Len(s)) = s

RECURSIVE SeqSum(_)
SeqSum(s) == IF s = << >> THEN 0 ELSE Head(s) + SeqSum(Tail(s))

RECURSIVE SeqMax(_)
SeqMax(s) ==
    IF Len(s) = 1 THEN Head(s)
    ELSE LET m == SeqMax(Tail(s)) IN IF Head(s) >= m THEN Head(s) ELSE m

----------------------------------------------------------------------------
(* Model configuration (MODEL_CONFIG) and environment                       *)

NovaEntry == [key |-> "nova_pro", display_name |-> "Amazon Nova Pro",
              type |-> "bedrock", model_id |-> "amazon.nova-pro-v1:0"]
ClaudeEntry == [key |-> "claude_4_5", display_name |-> "Anthropic Claude 4.5 Sonnet",
                type |-> "bedrock", model_id |-> "anthropic.claude-4.5-sonnet-20250205-v1:0"]
GrokEntry == [key |-> "grok", display_name |-> "Grok Operator Assistant",
              type |-> "grok", model_id |-> NONE]

DEFAULT_MODEL_CONFIG ==
    [default_model |-> "nova_pro", fallback_model |-> "nova_pro",
     models |-> <<NovaEntry, ClaudeEntry, GrokEntry>>]

\* other contents of agent_model_config.json that _load_model_config accepts
ClaudeFirstConfig ==
    [default_model |-> "claude_4_5", fallback_model |-> "nova_pro",
     models |-> <<NovaEntry, ClaudeEntry, GrokEntry>>]
GrokOnlyConfig ==
    [default_model |-> "grok", fallback_model |-> NONE, models |-> <<GrokEntry>>]
NoModelIdConfig ==
    [default_model |-> "nova_pro", fallback_model |-> "claude_4_5",
     models |-> <<[NovaEntry EXCEPT !.model_id = NONE], ClaudeEntry>>]
EmptyConfig ==
    [default_model |-> NONE, fallback_model |-> NONE, models |-> << >>]
GrokFallbackConfig ==
    [default_model |-> "nova_pro", fallback_model |-> "grok",
     models |-> <<NovaEntry, GrokEntry>>]

\* everything configured, Grok selected as primary model by AGENT_MODEL_KEY
BaseEnv ==
    [DATA_FETCH_ENABLED    |-> TRUE,
     AGENTCORE_GATEWAY_URL |-> "https://gateway",
     OPENSEARCH_ENDPOINT   |-> "search.example",
     GUARDRAIL_ID          |-> "gr-1",
     MIN_CONFIDENCE_SCORE  |-> 750,
     GROK_CREDENTIALS      |-> TRUE,
     LLM_HELPERS           |-> TRUE,
     AGENT_MODEL_KEY       |-> "grok",
     MODEL_CONFIG          |-> DEFAULT_MODEL_CONFIG]

Envs ==
    {BaseEnv,
     [BaseEnv EXCEPT !.DATA_FETCH_ENABLED = FALSE],
     [BaseEnv EXCEPT !.AGENTCORE_GATEWAY_URL = NONE],
     [BaseEnv EXCEPT !.OPENSEARCH_ENDPOINT = ""],
     [BaseEnv EXCEPT !.GUARDRAIL_ID = NONE],
     [BaseEnv EXCEPT !.MIN_CONFIDENCE_SCORE = 550],
     [BaseEnv EXCEPT !.GROK_CREDENTIALS = FALSE],
     [BaseEnv EXCEPT !.LLM_HELPERS = FALSE],
     [BaseEnv EXCEPT !.AGENT_MODEL_KEY = NONE],
     [BaseEnv EXCEPT !.AGENT_MODEL_KEY = "claude_4_5"],
     [BaseEnv EXCEPT !.AGENT_MODEL_KEY = "no_such_model"],
     [BaseEnv EXCEPT !.AGENT_MODEL_KEY = NONE, !.MODEL_CONFIG = ClaudeFirstConfig],
     [BaseEnv EXCEPT !.AGENT_MODEL_KEY = NONE, !.MODEL_CONFIG = GrokOnlyConfig],
     [BaseEnv EXCEPT !.AGENT_MODEL_KEY = NONE, !.MODEL_CONFIG = NoModelIdConfig],
     [BaseEnv EXCEPT !.AGENT_MODEL_KEY = NONE, !.MODEL_CONFIG = EmptyConfig],
     [BaseEnv EXCEPT !.AGENT_MODEL_KEY = NONE, !.MODEL_CONFIG = GrokFallbackConfig]}

----------------------------------------------------------------------------
(* Requests                                                                 *)

\* a query is a sequence of words and "" is << >>; keys names the keys
\* that are present in the payload
Words == {"low", "oil", "pressure", "SMT60"}

Queries == {<<"low", "oil", "pressure">>, <<"oil", "pressure", "SMT60">>}

UserTurn(c) == [role |-> "user", content |-> c, timestamp |-> "earlier"]
AssistantTurn(c) == [role |-> "assistant", content |-> c, timestamp |-> "earlier"]

Histories ==
    {<< >>, <<UserTurn(<<"hello">>), AssistantTurn(<<"hi">>)>>}

Payloads ==
    {[keys |-> {"session_id", "query", "messages"}, session_id |-> "s1",
      query |-> q, inputText |-> << >>, messages |-> m] :
        q \in Queries \cup {<< >>}, m \in Histories}
    \cup {[keys |-> {"query"}, session_id |-> NONE,
           query |-> <<"low", "oil", "pressure">>, inputText |-> << >>,
           messages |-> << >>],
          [keys |-> {"session_id", "query"}, session_id |-> "",
           query |-> <<"low", "oil", "pressure">>, inputText |-> << >>,
           messages |-> << >>],
          [keys |-> {"session_id", "inputText"}, session_id |-> "s1",
           query |-> << >>, inputText |-> <<"oil", "pressure", "SMT60">>,
           messages |-> << >>],
          [keys |-> {"session_id"}, session_id |-> "s1",
           query |-> << >>, inputText |-> << >>, messages |-> << >>]}

NoPayload ==
    [keys |-> {}, session_id |-> NONE, query |-> << >>, inputText |-> << >>,
     messages |-> << >>]

----------------------------------------------------------------------------
(* AgentState                                                               *)

\* the value a key of AgentState has before any node has set it
UnsetState ==
    [session_id           |-> NONE,
     query                |-> << >>,
     messages             |-> << >>,
     errors               |-> << >>,
     transformed_query    |-> << >>,
     query_metadata       |-> [intent |-> NONE, language |-> NONE,
                               turbine_model |-> NONE],
     turbine_model        |-> NONE,
     data_points          |-> << >>,
     data_fetch_status    |-> NONE,
     retrieved_documents  |-> << >>,
     hierarchical_context |-> << >>,
     citations            |-> << >>,
     llm_response         |-> << >>,
     response_metadata    |-> [model_key |-> NONE, model_display |-> NONE,
                               grok_invoked |-> FALSE],
     confidence_score     |-> -1,
     guardrail_result     |-> [status |-> NONE, details |-> NONE,
                               outputs |-> << >>]]

----------------------------------------------------------------------------
(* Utility helpers of handler.py                                            *)

\* TURBINE_ALIASES in declaration order (dict order is insertion order)
TURBINE_ALIASES ==
    << <<"smt60", "SMT60">>, <<"taurus60", "SMT60">>, <<"taurus-60", "SMT60">>,
       <<"smt130", "SMT130">>, <<"titan130", "SMT130">>, <<"titan-130", "SMT130">>,
       <<"tm2500", "TM2500">>, <<"lm2500", "TM2500">> >>

\* the characters of the words that occur in queries and alias names
Chars(w) ==
    CASE w = "low" -> <<"l", "o", "w">>
      [] w = "oil" -> <<"o", "i", "l">>
      [] w = "pressure" -> <<"p", "r", "e", "s", "s", "u", "r", "e">>
      [] w = "SMT60" -> <<"S", "M", "T", "6", "0">>
      [] w = "SMT" -> <<"S", "M", "T">>
      [] w = "60" -> <<"6", "0">>
      [] w = "SMT60s" -> <<"S", "M", "T", "6", "0", "s">>
      [] w = "Taurus60" -> <<"T", "a", "u", "r", "u", "s", "6", "0">>
      [] w = "TAURUS-60" -> <<"T", "A", "U", "R", "U", "S", "-", "6", "0">>
      [] w = "xSMT130" -> <<"x", "S", "M", "T", "1", "3", "0">>
      [] w = "Titan130" -> <<"T", "i", "t", "a", "n", "1", "3", "0">>
      [] w = "titan-130" -> <<"t", "i", "t", "a", "n", "-", "1", "3", "0">>
      [] w = "TM2500" -> <<"T", "M", "2", "5", "0", "0">>
      [] w = "LM2500" -> <<"L", "M", "2", "5", "0", "0">>
      [] w = "smt60" -> <<"s", "m", "t", "6", "0">>
      [] w = "taurus60" -> <<"t", "a", "u", "r", "u", "s", "6", "0">>
      [] w = "taurus-60" -> <<"t", "a", "u", "r", "u", "s", "-", "6", "0">>
      [] w = "smt130" -> <<"s", "m", "t", "1", "3", "0">>
      [] w = "titan130" -> <<"t", "i", "t", "a", "n", "1", "3", "0">>
      [] w = "tm2500" -> <<"t", "m", "2", "5", "0", "0">>
      [] w = "lm2500" -> <<"l", "m", "2", "5", "0", "0">>

\* the characters of a text of words separated by single spaces
RECURSIVE TextChars(_)
TextChars(text) ==
    IF text = << >> THEN << >>
    ELSE IF Len(text) = 1 THEN Chars(text[1])
    ELSE Chars(Head(text)) \o <<" ">> \o TextChars(Tail(text))

\* str.lower(), character by character
LowerChar(c) ==
    CASE c = "A" -> "a"
      [] c = "L" -> "l"
      [] c = "M" -> "m"
      [] c = "R" -> "r"
      [] c = "S" -> "s"
      [] c = "T" -> "t"
      [] c = "U" -> "u"
      [] OTHER -> c
Lower(chars) == [i \in DOMAIN chars |-> LowerChar(chars[i])]

\* len(word) and the number of its characters with ord(c) > 127
WordLen(w) ==
    CASE w = "pressure" -> 8 [] w = "SMT60" -> 5 [] w = "hello" -> 5
      [] w = "hi" -> 2 [] OTHER -> 3
WordNonAscii(w) == 0

\* needle in hay, for sequences of characters
IsSubstring(needle, hay) ==
    \E k \in 0..(Len(hay) - Len(needle)) : SubSeq(hay, k + 1, k + Len(needle)) = needle

\* alias in query_lower
AliasOccurs(alias, query_lower) == IsSubstring(Chars(alias), query_lower)

\* the alias that comes first in the text wins, not the first declared
detect_turbine_model_textorder(query) ==
    LET query_lower == Lower(TextChars(query))
        found == {i \in DOMAIN TURBINE_ALIASES :
                      AliasOccurs(TURBINE_ALIASES[i][1], query_lower)}
        at(i) == CHOOSE k \in 0..Len(query_lower) :
                    /\ SubSeq(query_lower, k + 1, k + Len(Chars(TURBINE_ALIASES[i][1])))
                            = Chars(TURBINE_ALIASES[i][1])
                    /\ \A h \in 0..(k - 1) :
                            SubSeq(query_lower, h + 1, h + Len(Chars(TURBINE_ALIASES[i][1])))
                                # Chars(TURBINE_ALIASES[i][1])
    IN  IF found = {} THEN NONE
        ELSE TURBINE_ALIASES[CHOOSE i \in found : \A j \in found : at(i) <= at(j)][2]

\* for alias, canonical in TURBINE_ALIASES.items(): the first alias, in
\* declaration order, that occurs in the lowered query
detect_turbine_model(query) ==
    LET query_lower == Lower(TextChars(query))
        found == {i \in DOMAIN TURBINE_ALIASES :
                      AliasOccurs(TURBINE_ALIASES[i][1], query_lower)}
    IN  IF found = {} THEN NONE
        ELSE TURBINE_ALIASES[CHOOSE i \in found : \A j \in found : i <= j][2]

detect_language(text) ==
    LET non_ascii == SeqSum([i \in DOMAIN text |-> WordNonAscii(text[i])])
        length == SeqSum([i \in DOMAIN text |-> WordLen(text[i])])
                  + (IF Len(text) > 0 THEN Len(text) - 1 ELSE 0)
        denom == IF length > 1 THEN length ELSE 1
    IN  IF 5 * non_ascii > denom THEN "unknown-non-ascii" ELSE "en"

\* messages[-n:]
LastN(s, n) == IF Len(s) <= n THEN s ELSE SubSeq(s, Len(s) - n + 1, Len(s))

IsUserTurn(msg) == "role" \in DOMAIN msg /\ msg.role = "user"
HasContent(msg) == msg.content # << >>

enrich_query(query, turbine_model, messages) ==
    LET recent == SelectSeq(SelectSeq(LastN(messages, 3), IsUserTurn), HasContent)
    IN  [original_query |-> query,
         turbine_model |-> turbine_model,
         detected_language |-> detect_language(query),
         recent_user_context |-> [i \in DOMAIN recent |-> recent[i].content],
         query_with_model_hint |->
            IF turbine_model # NONE
            THEN query \o <<"(turbine model: ", turbine_model, ")">>
            ELSE query]

\* a fresh list instead of the one in the state
ensure_errors_fresh(st) == << >>

\* state.get("errors", []): the list the earlier nodes appended to
ensure_errors(st) == st.errors

NoEntry == [key |-> NONE, display_name |-> NONE, type |-> NONE, model_id |-> NONE]

ModelKeys == {env.MODEL_CONFIG.models[i].key : i \in DOMAIN env.MODEL_CONFIG.models}

get_model_entry(model_key) ==
    IF model_key = NONE \/ model_key \notin ModelKeys THEN NoEntry
    ELSE LET i == CHOOSE j \in DOMAIN env.MODEL_CONFIG.models :
                      env.MODEL_CONFIG.models[j].key = model_key
         IN  env.MODEL_CONFIG.models[i]

\* the configured default is passed over
resolve_model_key_nodefault ==
    LET override == env.AGENT_MODEL_KEY
    IN  IF override # NONE /\ override \in ModelKeys THEN override
        ELSE IF env.MODEL_CONFIG.models # << >> THEN env.MODEL_CONFIG.models[1].key
        ELSE "nova_pro"

resolve_model_key ==
    LET override == env.AGENT_MODEL_KEY
        default_key == env.MODEL_CONFIG.default_model
    IN  IF override # NONE /\ override \in ModelKeys THEN override
        ELSE IF default_key \in ModelKeys THEN default_key
        ELSE IF env.MODEL_CONFIG.models # << >> THEN env.MODEL_CONFIG.models[1].key
        ELSE "nova_pro"

\* the configured fallback is taken even when it is the primary
resolve_fallback_model_key_same(primary_key) ==
    LET fallback_key == env.MODEL_CONFIG.fallback_model
        default_key == env.MODEL_CONFIG.default_model
    IN  IF fallback_key # NONE /\ get_model_entry(fallback_key) # NoEntry
        THEN fallback_key
        ELSE IF primary_key # "nova_pro" /\ get_model_entry("nova_pro") # NoEntry
        THEN "nova_pro"
        ELSE IF primary_key # default_key /\ get_model_entry(default_key) # NoEntry
        THEN default_key
        ELSE NONE

resolve_fallback_model_key(primary_key) ==
    LET fallback_key == env.MODEL_CONFIG.fallback_model
        default_key == env.MODEL_CONFIG.default_model
    IN  IF fallback_key # NONE /\ fallback_key # primary_key
           /\ get_model_entry(fallback_key) # NoEntry
        THEN fallback_key
        ELSE IF primary_key # "nova_pro" /\ get_model_entry("nova_pro") # NoEntry
        THEN "nova_pro"
        ELSE IF primary_key # default_key /\ get_model_entry(default_key) # NoEntry
        THEN default_key
        ELSE NONE

----------------------------------------------------------------------------
(* Retrieval: the search index, search results, neighbor stitching,         *)
(* context, citations                                                       *)
(*                                                                          *)
(* In the texts of this section every whitespace character is a piece of    *)
(* its own, so a piece never begins or ends with whitespace; a section      *)
(* name is such a text.  A key whose value is None is not in the record.    *)

\* the one indexed document, its S3 key, and the chunks of it in the index
IndexedSource == "manuals/SMT60 guide.pdf"
IndexChunks == 0..2

\* metadata without chunk_index (chunk indexes are never negative)
NoChunk == -1

\* the cleaned text of page 1, one character per element
ChunkText == <<"c", "h", "u", "n", "k", " ", "t", "e", "x", "t">>

\* chunk c as the document processor's lambda_handler hands it to
\* store_in_opensearch.  The document has three pages, each shorter than one
\* chunk, so chunk c is the whole cleaned text of page c + 1 (clean_text
\* leaves single blanks inside and none at the ends); turbine_model and
\* document_type are what extract_metadata_from_key reads off the key; the
\* embedding stands for the vector of the embedding model, in hundredths.
EnrichedChunk(c) ==
    LET text == CASE c = 0 -> ChunkText
                  [] c = 1 -> <<"o", "i", "l">>
                  [] OTHER -> <<"p", "u", "m", "p">>
    IN  [text |-> text,
         embedding |-> <<25, 50>>,
         metadata |-> [turbine_model |-> "SMT60", document_type |-> "manual",
                       source |-> IndexedSource, chunk_index |-> c,
                       page |-> c + 1, char_start |-> 0, char_end |-> Len(text)]]

\* the body store_in_opensearch indexes for the chunk at position i of its
\* list: the metadata keeps chunk_index, turbine_model, document_type and,
\* when the chunk has them, page, char_start and char_end
IndexedDoc(chunk, i) ==
    LET given == chunk.metadata
        source == IF "source" \in DOMAIN given THEN given.source ELSE "unknown"
        chunk_idx == IF "chunk_index" \in DOMAIN given THEN given.chunk_index ELSE i
        turbine_model ==
            IF "turbine_model" \in DOMAIN given THEN given.turbine_model ELSE "unknown"
        document_type ==
            IF "document_type" \in DOMAIN given THEN given.document_type ELSE "unknown"
        metadata ==
            [field \in {"page", "char_start", "char_end"} \cap DOMAIN given |->
                given[field]]
            @@ [chunk_index |-> chunk_idx, turbine_model |-> turbine_model,
                document_type |-> document_type]
    IN  [text |-> chunk.text, embedding |-> chunk.embedding,
         turbine_model |-> turbine_model, document_type |-> document_type,
         source |-> source, metadata |-> metadata]

\* _source of the indexed chunk c: the index is as the document processor
\* leaves it after the one document
IndexChunk(c) == IndexedDoc(EnrichedChunk(c), c)

\* a hit of the search response; the hit at rank i is chunk i-1, and the
\* request asks for five fields of _source, which leaves the embedding out
Hit(rank, score) ==
    LET indexed == IndexChunk(rank - 1)
        fields == {"text", "metadata", "source", "turbine_model", "document_type"}
    IN  [_source |-> [field \in fields \cap DOMAIN indexed |-> indexed[field]],
         _score |-> score]

\* ranked result lists: hits come back by descending _score
HitLists ==
    UNION {{sc \in [1..n -> Scores] : \A i \in 1..(n - 1) : sc[i] >= sc[i + 1]} :
              n \in 0..MaxHits}

\* "...".replace("/", "-").replace(" ", "-") on the indexed source
Dashed(source) ==
    IF source = "manuals/SMT60 guide.pdf" THEN "manuals-SMT60-guide.pdf" ELSE source

\* the chunk itself is asked for along with its neighbors
NeighborIds_self(source, chunk_index, window) ==
    [k \in 1..(2 * window + 1) |-> <<Dashed(source), chunk_index + k - window - 1>>]

\* the _id values fetch_neighbor_chunks asks for, in request order; an _id
\* "<dashed source>-<n>" is the pair of its two parts
NeighborIds(source, chunk_index, window) ==
    LET offsets == [k \in 1..(2 * window) |->
                        IF k <= window THEN k - window - 1 ELSE k - window]
    IN  [k \in 1..(2 * window) |-> <<Dashed(source), chunk_index + offsets[k]>>]

\* mget: the docs of the response that are "found", each as its _source.  A
\* chunk is indexed under the _id made of its source and chunk index
\* (document-processor/handler.py:370-372).
FoundNeighbors(ids) ==
    LET doc_id(c) == <<Dashed(IndexChunk(c).source), IndexChunk(c).metadata.chunk_index>>
        exists(id) == \E c \in IndexChunks : doc_id(c) = id
        found == SelectSeq(ids, exists)
    IN  [k \in DOMAIN found |->
            IndexChunk(CHOOSE c \in IndexChunks : doc_id(c) = found[k])]

\* mget is "ok" or "fail" (client.mget raised)
fetch_neighbor_chunks(client, source, chunk_index, window, mget) ==
    IF ~client \/ source = NONE \/ chunk_index = NoChunk THEN << >>
    ELSE IF NeighborIds(source, chunk_index, window) = << >> THEN << >>
    ELSE IF mget = "fail" THEN << >>
    ELSE FoundNeighbors(NeighborIds(source, chunk_index, window))

\* the truth value of a string that may be None or ""
Truthy(v) == v # NONE /\ v # ""

\* the truth value of d.get(key) for a text: a key that is missing or null is
\* not in the record, an empty text is << >>
HasText(d, key) == key \in DOMAIN d /\ d[key] # << >>

\* d.get(key)
Get(d, key) == IF key \in DOMAIN d THEN d[key] ELSE NONE

\* d.get("metadata", {})
Metadata(d) == IF "metadata" \in DOMAIN d THEN d.metadata ELSE << >>

\* s[:n]
Take(s, n) == SubSeq(s, 1, IF Len(s) < n THEN Len(s) ELSE n)

\* doc.get("content") or doc.get("text") or ""
DocText(doc) ==
    IF HasText(doc, "content") THEN doc.content
    ELSE IF HasText(doc, "text") THEN doc.text
    ELSE << >>

\* the ASCII characters str.strip() takes away: space, tab, line feed,
\* carriage return, form feed, vertical tab and the four separators
\* 0x1c..0x1f.  (It also takes the whitespace beyond ASCII, which no text
\* of the model holds.)
Whitespace == {" ", "\t", "\n", "\r", "\f", "", "", "", "", ""}

\* str.strip() of a text whose whitespace characters are pieces of their own
RECURSIVE LStrip(_)
LStrip(text) ==
    IF text # << >> /\ Head(text) \in Whitespace THEN LStrip(Tail(text))
    ELSE text

RECURSIVE RStrip(_)
RStrip(text) ==
    IF text # << >> /\ text[Len(text)] \in Whitespace
    THEN RStrip(SubSeq(text, 1, Len(text) - 1))
    ELSE text

Strip(text) == RStrip(LStrip(text))

\* a or b or ... over the text values of the keys of d, "" when every value
\* is falsy or missing
RECURSIVE FirstTruthy(_, _)
FirstTruthy(d, keys) ==
    IF keys = << >> THEN << >>
    ELSE IF HasText(d, Head(keys)) THEN d[Head(keys)]
    ELSE FirstTruthy(d, Tail(keys))

RECURSIVE Flatten(_)
Flatten(ss) == IF ss = << >> THEN << >> ELSE Head(ss) \o Flatten(Tail(ss))

\* the parts of one document joined by "\n": header line, content, one line
\* per neighbor.  The section is the first truthy of section_path, heading
\* and section of the metadata.
DocBlock(idx, doc) ==
    LET metadata == Metadata(doc)
        section == FirstTruthy(metadata, <<"section_path", "heading", "section">>)
        header == IF section # << >> THEN section ELSE <<"Unknown Section">>
        source == IF "source" \in DOMAIN doc THEN doc.source ELSE "Unknown Source"
        header_line ==
            <<"[Doc", " ", ToString(idx), "]", " ", "Source:", " ", source>>
            \o (IF "page" \in DOMAIN metadata
                THEN <<" ", "(page", " ", ToString(metadata.page), ")">>
                ELSE << >>)
            \o <<" ", "|", " ", "Section:", " ">> \o header
        neighbors == IF "neighbors" \in DOMAIN doc THEN doc.neighbors ELSE << >>
        neighbor_text(nb) == IF "text" \in DOMAIN nb THEN nb.text ELSE << >>
        neighbor_line(nb) ==
            LET subsection ==
                    FirstTruthy(Metadata(nb), <<"section_path", "heading", "section">>)
            IN  <<"\n", " ", " ", "[Neighbor]", " ">>
                \o (IF subsection # << >> THEN subsection \o <<":", " ">> ELSE << >>)
                \o neighbor_text(nb)
    IN  header_line \o <<"\n">> \o DocText(doc)
        \o Flatten([k \in DOMAIN neighbors |-> neighbor_line(neighbors[k])])

\* no special case for an empty result list: the join of no parts
build_hierarchical_context_nosentinel(documents) ==
    Strip(Flatten([i \in DOMAIN documents |->
                      DocBlock(i, documents[i]) \o <<"\n", "\n">>]))

\* "\n".join(context_parts).strip(): every document's parts are followed by
\* an empty part, so blocks are separated by a blank line, and the strip
\* takes the whitespace at both ends
build_hierarchical_context(documents) ==
    IF documents = << >> THEN NO_DOCS_CONTEXT
    ELSE Strip(Flatten([i \in DOMAIN documents |->
                          DocBlock(i, documents[i]) \o <<"\n", "\n">>]))

----------------------------------------------------------------------------
(* Binary floating point (Python float, IEEE 754 binary64)                  *)
(*                                                                          *)
(* A natural number too large for one machine integer is a sequence of      *)
(* limbs in base 2^15, least significant first, << >> for zero.  A float    *)
(* x >= 0 is [m, e] with x = m * 2^e, m of exactly 53 bits, or m = << >>.   *)
(* Every operation rounds its exact result to nearest, ties to even.        *)

LimbBits == 15
LimbBase == 32768

RECURSIVE BigFromInt(_)
BigFromInt(n) ==
    IF n = 0 THEN << >> ELSE <<n % LimbBase>> \o BigFromInt(n \div LimbBase)

\* for values that fit a machine integer
RECURSIVE BigToInt(_)
BigToInt(a) == IF a = << >> THEN 0 ELSE Head(a) + LimbBase * BigToInt(Tail(a))

RECURSIVE BigAddCarry(_, _, _)
BigAddCarry(a, b, carry) ==
    IF a = << >> /\ b = << >>
    THEN IF carry = 0 THEN << >> ELSE <<carry>>
    ELSE LET x == (IF a = << >> THEN 0 ELSE Head(a))
                  + (IF b = << >> THEN 0 ELSE Head(b)) + carry
         IN  <<x % LimbBase>>
             \o BigAddCarry(IF a = << >> THEN << >> ELSE Tail(a),
                            IF b = << >> THEN << >> ELSE Tail(b),
                            x \div LimbBase)

BigAdd(a, b) == BigAddCarry(a, b, 0)

\* a * d + carry for 0 < d < 2^15
RECURSIVE BigMulSmall(_, _, _)
BigMulSmall(a, d, carry) ==
    IF a = << >>
    THEN IF carry = 0 THEN << >> ELSE <<carry>>
    ELSE LET x == Head(a) * d + carry
         IN  <<x % LimbBase>> \o BigMulSmall(Tail(a), d, x \div LimbBase)

RECURSIVE BigMul(_, _)
BigMul(a, b) ==
    IF a = << >> \/ b = << >> THEN << >>
    ELSE LET rest == BigMul(a, Tail(b))
         IN  BigAdd(IF Head(b) = 0 THEN << >> ELSE BigMulSmall(a, Head(b), 0),
                    IF rest = << >> THEN << >> ELSE <<0>> \o rest)

\* quotient and remainder of a by d, 0 < d < 2^15
RECURSIVE BigDivSmall(_, _)
BigDivSmall(a, d) ==
    IF a = << >> THEN [q |-> << >>, r |-> 0]
    ELSE LET hi == BigDivSmall(Tail(a), d)
             cur == hi.r * LimbBase + Head(a)
         IN  [q |-> IF hi.q = << >> /\ cur \div d = 0 THEN << >>
                    ELSE <<cur \div d>> \o hi.q,
              r |-> cur % d]

\* a * 2^k
BigShl(a, k) ==
    IF a = << >> THEN << >>
    ELSE [i \in 1..(k \div LimbBits) |-> 0] \o BigMulSmall(a, 2 ^ (k % LimbBits), 0)

\* floor(a / 2^k), and whether anything was cut off
BigShrFloor(a, k) ==
    LET limbs == k \div LimbBits
        kept == IF limbs >= Len(a) THEN << >> ELSE SubSeq(a, limbs + 1, Len(a))
        d == BigDivSmall(kept, 2 ^ (k % LimbBits))
    IN  [q |-> d.q,
         cut |-> d.r # 0 \/ \E i \in 1..limbs : i <= Len(a) /\ a[i] # 0]

\* a / 2^k (plus something below the last bit of a when sticky) rounded to
\* the nearest integer, ties to even
BigRoundShr(a, k, sticky) ==
    IF k = 0 THEN a
    ELSE LET lo == BigShrFloor(a, k - 1)
             half == lo.q # << >> /\ Head(lo.q) % 2 = 1
             q == BigDivSmall(lo.q, 2).q
             odd == q # << >> /\ Head(q) % 2 = 1
         IN  IF half /\ (lo.cut \/ sticky \/ odd) THEN BigAdd(q, <<1>>) ELSE q

RECURSIVE BitLen(_)
BitLen(n) == IF n = 0 THEN 0 ELSE 1 + BitLen(n \div 2)

BigBitLen(a) ==
    IF a = << >> THEN 0 ELSE LimbBits * (Len(a) - 1) + BitLen(a[Len(a)])

MantissaBits == 53
FloatZero == [m |-> << >>, e |-> 0]

\* the float nearest to n * 2^e (n with at least 55 bits when sticky)
FloatRound(n, e, sticky) ==
    LET len == BigBitLen(n)
        k == len - MantissaBits
        q == BigRoundShr(n, k, sticky)
    IN  IF n = << >> THEN FloatZero
        ELSE IF len <= MantissaBits
        THEN [m |-> BigShl(n, MantissaBits - len), e |-> e - (MantissaBits - len)]
        ELSE IF BigBitLen(q) > MantissaBits
        THEN [m |-> BigDivSmall(q, 2).q, e |-> e + k + 1]
        ELSE [m |-> q, e |-> e + k]

\* the float of a decimal literal or of int / int: num / den, 0 < den < 2^15
FloatOfRatio(num, den) ==
    LET d == BigDivSmall(BigShl(BigFromInt(num), 5 * LimbBits), den)
    IN  FloatRound(d.q, 0 - 5 * LimbBits, d.r # 0)

FloatAdd(a, b) ==
    IF a.m = << >> THEN b
    ELSE IF b.m = << >> THEN a
    ELSE LET e == IF a.e < b.e THEN a.e ELSE b.e
         IN  FloatRound(BigAdd(BigShl(a.m, a.e - e), BigShl(b.m, b.e - e)), e, FALSE)

FloatMul(a, b) == FloatRound(BigMul(a.m, b.m), a.e + b.e, FALSE)

\* a / n for an int n, 0 < n < 2^15
FloatDivInt(a, n) ==
    LET d == BigDivSmall(BigShl(a.m, LimbBits), n)
    IN  FloatRound(d.q, a.e - LimbBits, d.r # 0)

\* round(x, 3) in thousandths: the decimal with three places nearest to the
\* exact value of x, ties to even
FloatRound3(x) ==
    IF x.m = << >> THEN 0
    ELSE BigToInt(BigRoundShr(BigMulSmall(x.m, 1000, 0), 0 - x.e, FALSE))

\* sum(...) over floats, left to right from 0
RECURSIVE FloatSum(_)
FloatSum(xs) ==
    IF xs = << >> THEN FloatZero
    ELSE FloatAdd(FloatSum(SubSeq(xs, 1, Len(xs) - 1)), xs[Len(xs)])

\* the float literals of combine_confidence
Float040 == FloatOfRatio(4, 10)
Float055 == FloatOfRatio(55, 100)
Float035 == FloatOfRatio(35, 100)
Float005 == FloatOfRatio(5, 100)

----------------------------------------------------------------------------
(* Citations                                                                *)

\* round(x, 3) in thousandths, for the float x nearest to num / (1000 * den),
\* num >= 0, den > 0.  Off a tie the thousandth nearest to num / den is the
\* one nearest to x.  On a tie num / den = q + 1/2, so x is the float of
\* (2q + 1) / 2000, and the side x lies on decides.
PyRound(num, den) ==
    LET q == num \div den
        r == num % den
    IN  IF 2 * r < den THEN q
        ELSE IF 2 * r > den THEN q + 1
        ELSE FloatRound3(FloatOfRatio(2 * q + 1, 2000))

\* metadata.get("section_path") or metadata.get("heading")
CitationSection(metadata) ==
    IF HasText(metadata, "section_path") THEN metadata.section_path
    ELSE Get(metadata, "heading")

\* the clamp left out: the quotient as it is
Clamp01_unclamped(num, den) == num

\* min(max(x, 0.0), 1.0) of x = num/den, den > 0, as a numerator over den
Clamp01(num, den) == IF num < 0 THEN 0 ELSE IF num > den THEN den ELSE num

\* max_score of normalize_citations: the largest raw score, 1.0 if that is <= 0
CitationDivisor(documents) ==
    LET raw == SeqMax([i \in DOMAIN documents |-> documents[i].score])
    IN  IF raw <= 0 THEN 1 ELSE raw

\* one citation per document, the excerpt being the first 500 characters
normalize_citations(documents) ==
    IF documents = << >> THEN << >>
    ELSE LET max_score == CitationDivisor(documents)
         IN  [i \in DOMAIN documents |->
                [source |-> Get(documents[i], "source"),
                 page |-> Get(Metadata(documents[i]), "page"),
                 relevance_score |->
                    PyRound(1000 * Clamp01(documents[i].score, max_score), max_score),
                 excerpt |-> Take(DocText(documents[i]), 500),
                 section |-> CitationSection(Metadata(documents[i]))]]

----------------------------------------------------------------------------
(* combine_confidence                                                       *)

\* the first relevance score in place of the mean
avg_relevance_first(document_citations) ==
    FloatOfRatio(document_citations[1].relevance_score, 1000)

\* avg_relevance: sum of the relevance scores (floats of three decimals)
\* divided by their number
avg_relevance(document_citations) ==
    FloatDivInt(FloatSum([i \in DOMAIN document_citations |->
                    FloatOfRatio(document_citations[i].relevance_score, 1000)]),
                Len(document_citations))

\* base_confidence before it is rounded, as the float the code computes
base_confidence(document_citations, data_points) ==
    LET base == IF document_citations = << >> THEN Float040
                ELSE FloatAdd(Float055,
                              FloatMul(avg_relevance(document_citations), Float035))
    IN  IF data_points # << >> THEN FloatAdd(base, Float005) ELSE base

\* the sum of the relevance scores in place of their mean
combine_confidence_sum(document_citations, data_points) ==
    LET total == SeqSum([i \in DOMAIN document_citations |->
                            document_citations[i].relevance_score])
        base == IF document_citations = << >> THEN 400 ELSE 550 + (35 * total) \div 100
        rounded == IF data_points # << >> THEN base + 50 ELSE base
    IN  IF rounded > 980 THEN 980 ELSE rounded

\* the telemetry bonus left out
combine_confidence_nobonus(document_citations, data_points) ==
    FloatRound3(base_confidence(document_citations, << >>))

\* 0.4, or 0.55 + 0.35 * mean relevance; + 0.05 with telemetry; rounded to
\* three decimals, at most 0.98 (the result in thousandths).  num / den is
\* the exact value in thousandths; the float is within 2^-40 of it, so the
\* thousandth nearest to the float is the one nearest to num / den unless
\* num / den is halfway between two thousandths, where the float decides.
combine_confidence(document_citations, data_points) ==
    LET n == Len(document_citations)
        total == SeqSum([i \in DOMAIN document_citations |->
                            document_citations[i].relevance_score])
        den == IF n = 0 THEN 1 ELSE 100 * n
        base == IF n = 0 THEN 400 ELSE 55000 * n + 35 * total
        num == IF data_points # << >> THEN base + 50 * den ELSE base
        rounded == IF 2 * (num % den) = den
                   THEN FloatRound3(base_confidence(document_citations, data_points))
                   ELSE PyRound(num, den)
    IN  IF rounded > 980 THEN 980 ELSE rounded

----------------------------------------------------------------------------
(* External collaborators: the outcomes a request to each can have          *)

\* POST {gateway}/timeseries: a JSON object with readings, one without, a
\* requests.RequestException (transport error, timeout, HTTP error status),
\* or a 200 reply whose JSON body is null
GatewayOutcomes == {"data", "empty", "request_exception", "null_body"}
\* POST GROK_API_URL: same shapes; "empty" is a body without response/text
GrokOutcomes == {"text", "empty", "request_exception", "null_body"}
\* invoke_llm: generated text, "" (no text in the reply), or it raises
BedrockOutcomes == {"text", "empty", "exception"}
\* get_opensearch_client, then generate_embedding and client.search
SearchOutcomes == {"client_exception", "embedding_exception", "search_exception", "hits"}
MgetOutcomes == {"ok", "fail"}
\* bedrock.apply_guardrail raises, or returns these outputs
GuardrailOutputs ==
    {<< >>,
     <<[complianceStatus |-> "COMPLIANT"]>>,
     <<[complianceStatus |-> "NON_COMPLIANT"]>>,
     <<[complianceStatus |-> NONE]>>}

TelemetryReading == [variable |-> "pressure", value |-> 42]

\* a request to a collaborator; role tells a reasoning backend's invocation as
\* primary from one as fallback
Call(to, arg, outcome) == [to |-> to, arg |-> arg, outcome |-> outcome, role |-> "-"]
BackendCall(to, key, outcome, role) ==
    [to |-> to, arg |-> key, outcome |-> outcome, role |-> role]

----------------------------------------------------------------------------
(* lambda_handler: entry                                                    *)

NoResult == [statusCode |-> 0, body |-> [error |-> NONE]]
NoTool == [statusCode |-> 0, documents |-> << >>, citations |-> << >>]
\* the invocation ended with an unhandled exception: no response object
Unhandled(exc) == [statusCode |-> -1, body |-> [error |-> exc]]

\* no helper function is being applied on its own
NoProbe == [fn |-> NONE]

\* the sessions table without items (an item is its messages), and the chat
\* API handler at rest
SessionIds == {"s1", "session-generated"}
NoSessions == [s \in SessionIds |-> << >>]
NoChatResult == [statusCode |-> 0, body |-> [error |-> NONE]]
\* a POST /chat served at the same time by another execution environment:
\* where it is, and the messages it loaded
OtherIdle == [pc |-> "idle", messages |-> << >>]
ChatIdle ==
    [pc |-> "idle", method |-> "-",
     body |-> [keys |-> {}, nulls |-> {}, query |-> << >>, session_id |-> ""],
     payload |-> NoPayload, calls |-> << >>, result |-> NoChatResult,
     other |-> OtherIdle]

Init ==
    /\ env \in Envs
    /\ pc = "idle"
    /\ payload = NoPayload
    /\ state = UnsetState
    /\ trace = << >>
    /\ calls = << >>
    /\ result = NoResult
    /\ tool = NoTool
    /\ probe = NoProbe
    /\ store = NoSessions
    /\ chat = ChatIdle

\* payload.get("query") after the inputText aliasing; << >> when missing
PayloadQuery(p) ==
    IF "query" \in p.keys THEN p.query
    ELSE IF "inputText" \in p.keys THEN p.inputText
    ELSE << >>

\* payload.get("session_id") or a generated id: a missing, null or empty id
\* is replaced
PayloadSession(p) ==
    IF "session_id" \in p.keys /\ p.session_id # NONE /\ p.session_id # ""
    THEN p.session_id
    ELSE "session-generated"

PayloadMessages(p) == IF "messages" \in p.keys THEN p.messages ELSE << >>

\* an OPTIONS request of the API Gateway proxy integration
lambda_handler_options ==
    /\ pc = "idle"
    /\ pc' = "done"
    /\ result' = [statusCode |-> 204, body |-> [error |-> NONE]]
    /\ UNCHANGED <<env, payload, state, trace, calls, tool, probe, store, chat>>

\* the event: what the chat API handler sends while its invoke is waiting,
\* any payload of a direct invocation otherwise.  A direct invocation shares
\* no state with the chat handler, so it is started between two requests of
\* the chat handler only.
InvocationPayloads ==
    IF chat.pc = "invoking" THEN {chat.payload}
    ELSE IF chat.pc = "idle" THEN Payloads
    ELSE {}

\* parse the event, validate the query, build initial_state, enter the graph
lambda_handler_entry ==
    /\ pc = "idle"
    /\ \E p \in InvocationPayloads :
        /\ payload' = p
        /\ IF PayloadQuery(p) = << >>
           THEN /\ pc' = "done"
                /\ result' = [statusCode |-> 400,
                              body |-> [error |-> "Query is required"]]
                /\ UNCHANGED state
           ELSE /\ pc' = "QueryTransformer"
                /\ state' = [UnsetState EXCEPT
                                !.session_id = PayloadSession(p),
                                !.query = PayloadQuery(p),
                                !.messages = PayloadMessages(p),
                                !.errors = << >>]
                /\ UNCHANGED result
    /\ UNCHANGED <<env, trace, calls, tool, probe, store, chat>>

----------------------------------------------------------------------------
(* Graph nodes                                                              *)

query_transformer ==
    /\ pc = "QueryTransformer"
    /\ LET turbine_model == detect_turbine_model(state.query)
           enriched == enrich_query(state.query, turbine_model, state.messages)
       IN  state' = [state EXCEPT
                        !.transformed_query = enriched.query_with_model_hint,
                        !.query_metadata =
                            [intent |-> "diagnostic_query",
                             language |-> enriched.detected_language,
                             turbine_model |-> turbine_model],
                        !.turbine_model = turbine_model]
    /\ trace' = Append(trace, "QueryTransformer")
    /\ pc' = "DataFetcher"
    /\ UNCHANGED <<env, payload, calls, result, tool, probe, store, chat>>

\* only the flag is looked at, not the endpoint
TelemetryDisabled_flagonly == ~env.DATA_FETCH_ENABLED

\* not DATA_FETCH_ENABLED or not AGENTCORE_GATEWAY_URL
TelemetryDisabled == ~env.DATA_FETCH_ENABLED \/ env.AGENTCORE_GATEWAY_URL = NONE

\* a failed request is sent a second time before giving up
data_fetcher_retry ==
    /\ pc = "DataFetcher"
    /\ trace' = Append(trace, "DataFetcher")
    /\ LET errors == ensure_errors(state)
       IN  IF TelemetryDisabled
           THEN /\ state' = [state EXCEPT !.data_points = << >>,
                                          !.data_fetch_status = "disabled",
                                          !.errors = errors]
                /\ pc' = "KnowledgeRetriever"
                /\ UNCHANGED <<calls, result>>
           ELSE \E outcome \in GatewayOutcomes :
                /\ calls' = IF outcome = "request_exception"
                            THEN calls \o <<Call("gateway", state.turbine_model, outcome),
                                            Call("gateway", state.turbine_model, outcome)>>
                            ELSE Append(calls, Call("gateway", state.turbine_model, outcome))
                /\ CASE outcome = "data" ->
                          /\ state' = [state EXCEPT
                                          !.data_points = <<TelemetryReading>>,
                                          !.data_fetch_status = "success",
                                          !.errors = errors]
                          /\ pc' = "KnowledgeRetriever"
                          /\ UNCHANGED result
                     [] outcome = "empty" ->
                          /\ state' = [state EXCEPT
                                          !.data_points = << >>,
                                          !.data_fetch_status = "success",
                                          !.errors = errors]
                          /\ pc' = "KnowledgeRetriever"
                          /\ UNCHANGED result
                     [] outcome = "request_exception" ->
                          /\ state' = [state EXCEPT
                                          !.data_points = << >>,
                                          !.data_fetch_status = "error",
                                          !.errors = Append(errors,
                                              <<"DataFetcher: ", "RequestException">>)]
                          /\ pc' = "KnowledgeRetriever"
                          /\ UNCHANGED result
                     [] outcome = "null_body" ->
                          \* body.get on None: AttributeError is not a
                          \* RequestException and leaves the node and the handler
                          /\ pc' = "done"
                          /\ result' = Unhandled("AttributeError")
                          /\ UNCHANGED state
    /\ UNCHANGED <<env, payload, tool, probe, store, chat>>

data_fetcher ==
    /\ pc = "DataFetcher"
    /\ trace' = Append(trace, "DataFetcher")
    /\ LET errors == ensure_errors(state)
       IN  IF TelemetryDisabled
           THEN /\ state' = [state EXCEPT !.data_points = << >>,
                                          !.data_fetch_status = "disabled",
                                          !.errors = errors]
                /\ pc' = "KnowledgeRetriever"
                /\ UNCHANGED <<calls, result>>
           ELSE \E outcome \in GatewayOutcomes :
                /\ calls' = Append(calls, Call("gateway", state.turbine_model, outcome))
                /\ CASE outcome = "data" ->
                          /\ state' = [state EXCEPT
                                          !.data_points = <<TelemetryReading>>,
                                          !.data_fetch_status = "success",
                                          !.errors = errors]
                          /\ pc' = "KnowledgeRetriever"
                          /\ UNCHANGED result
                     [] outcome = "empty" ->
                          /\ state' = [state EXCEPT
                                          !.data_points = << >>,
                                          !.data_fetch_status = "success",
                                          !.errors = errors]
                          /\ pc' = "KnowledgeRetriever"
                          /\ UNCHANGED result
                     [] outcome = "request_exception" ->
                          /\ state' = [state EXCEPT
                                          !.data_points = << >>,
                                          !.data_fetch_status = "error",
                                          !.errors = Append(errors,
                                              <<"DataFetcher: ", "RequestException">>)]
                          /\ pc' = "KnowledgeRetriever"
                          /\ UNCHANGED result
                     [] outcome = "null_body" ->
                          \* body.get on None: AttributeError is not a
                          \* RequestException and leaves the node and the handler
                          /\ pc' = "done"
                          /\ result' = Unhandled("AttributeError")
                          /\ UNCHANGED state
    /\ UNCHANGED <<env, payload, tool, probe, store, chat>>

\* search_documents: one result per hit of the response, made of its _source
\* and _score; every exception of the embedding call or of the search is
\* caught inside the helper, which then returns no results
search_documents(outcome, scores) ==
    IF outcome = "hits"
    THEN [i \in DOMAIN scores |->
            LET hit == Hit(i, scores[i])
                source == hit._source
            IN  [content |-> IF "text" \in DOMAIN source THEN source.text ELSE << >>,
                 source |-> IF "source" \in DOMAIN source THEN source.source
                            ELSE "Unknown",
                 page |-> Get(Metadata(source), "page"),
                 turbine_model |-> Get(source, "turbine_model"),
                 document_type |-> Get(source, "document_type"),
                 score |-> hit._score,
                 metadata |-> Metadata(source)]]
    ELSE << >>

\* the collaborator requests search_documents issues
SearchCalls(outcome, query) ==
    IF outcome = "embedding_exception"
    THEN <<Call("embedding", "query", "exception")>>
    ELSE <<Call("embedding", "query", "ok"),
           Call("search", "query",
                IF outcome = "search_exception" THEN "exception" ELSE "ok")>>

\* metadata.get("chunk_index")
ChunkIndex(doc) ==
    IF "chunk_index" \in DOMAIN Metadata(doc) THEN Metadata(doc).chunk_index
    ELSE NoChunk

\* for doc in documents: doc["neighbors"] = fetch_neighbor_chunks(...); the
\* other keys of the document stay as search_documents set them
StitchNeighbors(documents, mget) ==
    [i \in DOMAIN documents |->
        [neighbors |-> fetch_neighbor_chunks(TRUE, Get(documents[i], "source"),
                                             ChunkIndex(documents[i]), 1, mget[i])]
        @@ documents[i]]

\* one mget per document that has a source and a chunk index, with the _id
\* values it asks for
MgetCalls(documents, mget) ==
    LET asks(i) == Get(documents[i], "source") # NONE /\ ChunkIndex(documents[i]) # NoChunk
        call(i) ==
            [to |-> "mget", arg |-> ToString(i), outcome |-> mget[i], role |-> "-",
             ids |-> NeighborIds(documents[i].source, ChunkIndex(documents[i]), 1)]
    IN  Flatten([i \in DOMAIN documents |-> IF asks(i) THEN <<call(i)>> ELSE << >>])

knowledge_retriever ==
    /\ pc = "KnowledgeRetriever"
    /\ trace' = Append(trace, "KnowledgeRetriever")
    /\ pc' = "ReasoningEngine"
    /\ LET errors == ensure_errors(state)
       IN  IF env.OPENSEARCH_ENDPOINT = ""
           THEN /\ state' = [state EXCEPT
                                !.retrieved_documents = << >>,
                                !.hierarchical_context = UNAVAILABLE_CONTEXT,
                                !.citations = << >>,
                                !.errors = Append(errors,
                                    <<"KnowledgeRetriever: OpenSearch not configured">>)]
                /\ UNCHANGED calls
           ELSE \E outcome \in SearchOutcomes :
                IF outcome = "client_exception"
                THEN /\ state' = [state EXCEPT
                                    !.retrieved_documents = << >>,
                                    !.hierarchical_context = FAILED_CONTEXT,
                                    !.citations = << >>,
                                    !.errors = Append(errors,
                                        <<"KnowledgeRetriever: ", "client error">>)]
                     /\ calls' = Append(calls, Call("opensearch_client", "endpoint", "exception"))
                ELSE \E scores \in (IF outcome = "hits" THEN HitLists ELSE {<< >>}) :
                     \E mget \in [DOMAIN scores -> MgetOutcomes] :
                     LET found == search_documents(outcome, scores)
                         documents == StitchNeighbors(found, mget)
                     IN  /\ state' = [state EXCEPT
                                        !.retrieved_documents = documents,
                                        !.hierarchical_context =
                                            build_hierarchical_context(documents),
                                        !.citations = normalize_citations(documents),
                                        !.errors = errors]
                         /\ calls' = calls \o SearchCalls(outcome, state.transformed_query)
                                           \o MgetCalls(documents, mget)
    /\ UNCHANGED <<env, payload, result, tool, probe, store, chat>>

\* call_grok_api: the text, or None; nothing is sent without credentials
call_grok_api(outcome, draft) ==
    IF ~env.GROK_CREDENTIALS THEN [none |-> TRUE, text |-> << >>, sent |-> FALSE]
    ELSE IF outcome = "text" THEN [none |-> FALSE, text |-> draft, sent |-> TRUE]
    ELSE [none |-> TRUE, text |-> << >>, sent |-> TRUE]

\* run_bedrock_model: the text ("" included) or None, the errors list it
\* appended to, and whether invoke_llm was called
run_bedrock_model(model_entry, errors, outcome, draft) ==
    IF model_entry = NoEntry
    THEN [none |-> TRUE, text |-> << >>, sent |-> FALSE,
          errors |-> Append(errors, <<"Bedrock model entry unavailable for invocation.">>)]
    ELSE IF ~env.LLM_HELPERS
    THEN [none |-> TRUE, text |-> << >>, sent |-> FALSE,
          errors |-> Append(errors, <<"Bedrock client helpers not available in runtime package.">>)]
    ELSE IF model_entry.model_id = NONE
    THEN [none |-> TRUE, text |-> << >>, sent |-> FALSE,
          errors |-> Append(errors, <<"Bedrock model configuration missing model_id.">>)]
    ELSE IF outcome = "text"
    THEN [none |-> FALSE, text |-> draft, sent |-> TRUE, errors |-> errors]
    ELSE IF outcome = "empty"
    THEN [none |-> FALSE, text |-> << >>, sent |-> TRUE, errors |-> errors]
    ELSE [none |-> TRUE, text |-> << >>, sent |-> TRUE,
          errors |-> Append(errors, <<"Bedrock invocation failed for model ",
                                      model_entry.model_id, ": ", "exc">>)]

\* an entry of type grok is reached through the Grok API
BedrockCall_bytype(key, r, outcome, role) ==
    <<BackendCall(IF get_model_entry(key).type = "grok" THEN "grok" ELSE "bedrock",
                  key, outcome, role)>>

\* the entry of calls for one call of run_bedrock_model / call_grok_api
BedrockCall(key, r, outcome, role) ==
    <<BackendCall("bedrock", key, IF r.sent THEN outcome ELSE "not_sent", role)>>
GrokCall(key, r, outcome) ==
    <<BackendCall("grok", key, IF r.sent THEN outcome ELSE "not_sent", "primary")>>

\* used_model_key is not moved to the fallback key
RunFallback_keepprimary(primary_model_key, errors, outcome, draft, grok_primary) ==
    LET fallback_key == resolve_fallback_model_key(primary_model_key)
        r == run_bedrock_model(get_model_entry(fallback_key), errors, outcome, draft)
    IN  IF fallback_key # NONE
        THEN [none |-> r.none, text |-> r.text, errors |-> r.errors,
              used |-> primary_model_key,
              calls |-> BedrockCall(fallback_key, r, outcome, "fallback")]
        ELSE [none |-> TRUE, text |-> << >>, errors |-> errors,
              used |-> primary_model_key, calls |-> << >>]

\* the fallback of reasoning_engine: resolve the fallback key and run it
\* through run_bedrock_model, or report that there is none
RunFallback(primary_model_key, errors, outcome, draft, grok_primary) ==
    LET fallback_key == resolve_fallback_model_key(primary_model_key)
        r == run_bedrock_model(get_model_entry(fallback_key), errors, outcome, draft)
    IN  IF fallback_key # NONE
        THEN [none |-> r.none, text |-> r.text, errors |-> r.errors,
              used |-> fallback_key,
              calls |-> BedrockCall(fallback_key, r, outcome, "fallback")]
        ELSE [none |-> TRUE, text |-> << >>,
              errors |-> IF grok_primary
                         THEN Append(errors,
                                <<"Grok selected but no fallback Bedrock model configured.">>)
                         ELSE errors,
              used |-> primary_model_key, calls |-> << >>]

\* reasoning_engine up to the sentinel: what the primary and the fallback gave
SelectAndInvoke(errors0, o1, o2, draft) ==
    LET resolved == resolve_model_key
        missing == get_model_entry(resolved) = NoEntry
        errors1 == IF missing
                   THEN Append(errors0, <<"Model configuration missing entry for key '",
                                          resolved, "'. Falling back to Nova Pro.">>)
                   ELSE errors0
        primary_model_key == IF missing THEN "nova_pro" ELSE resolved
        primary_entry == get_model_entry(primary_model_key)
    IN  IF primary_entry # NoEntry /\ primary_entry.type = "grok"
        THEN LET g == call_grok_api(o1, draft)
                 fb == RunFallback(primary_model_key, errors1, o2, draft, TRUE)
             IN  IF g.text # << >>
                 THEN [none |-> FALSE, text |-> g.text, errors |-> errors1,
                       used |-> primary_model_key, grok_invoked |-> TRUE,
                       calls |-> GrokCall(primary_model_key, g, o1)]
                 ELSE [none |-> fb.none, text |-> fb.text, errors |-> fb.errors,
                       used |-> fb.used, grok_invoked |-> TRUE,
                       calls |-> GrokCall(primary_model_key, g, o1) \o fb.calls]
        ELSE LET r == run_bedrock_model(primary_entry, errors1, o1, draft)
                 fb == RunFallback(primary_model_key, r.errors, o2, draft, FALSE)
             IN  IF ~r.none
                 THEN [none |-> FALSE, text |-> r.text, errors |-> r.errors,
                       used |-> primary_model_key, grok_invoked |-> FALSE,
                       calls |-> BedrockCall(primary_model_key, r, o1, "primary")]
                 ELSE [none |-> fb.none, text |-> fb.text, errors |-> fb.errors,
                       used |-> fb.used, grok_invoked |-> FALSE,
                       calls |-> BedrockCall(primary_model_key, r, o1, "primary")
                                 \o fb.calls]

\* the sentinel left out: whatever the backends gave is the response
FinalizeResponse_nosentinel(out) ==
    [text |-> out.text, errors |-> out.errors]

\* if not response_text: record the failure and answer with the sentinel
FinalizeResponse(out) ==
    IF out.text = << >>
    THEN [text |-> FAILURE_SENTINEL,
          errors |-> Append(out.errors,
                        <<"ReasoningEngine unable to produce a response from configured models.">>)]
    ELSE [text |-> out.text, errors |-> out.errors]

\* whether the primary model of this configuration is the external-HTTP one
PrimaryIsGrok ==
    LET resolved == resolve_model_key
        key == IF get_model_entry(resolved) = NoEntry THEN "nova_pro" ELSE resolved
    IN  get_model_entry(key) # NoEntry /\ get_model_entry(key).type = "grok"

reasoning_engine ==
    /\ pc = "ReasoningEngine"
    /\ trace' = Append(trace, "ReasoningEngine")
    /\ \E o1 \in GrokOutcomes \cup BedrockOutcomes, o2 \in BedrockOutcomes,
          draft \in Drafts :
        /\ IF PrimaryIsGrok THEN o1 \in GrokOutcomes ELSE o1 \in BedrockOutcomes
        /\ IF PrimaryIsGrok /\ env.GROK_CREDENTIALS /\ o1 = "null_body"
           THEN \* body.get on None inside call_grok_api: AttributeError escapes
                /\ pc' = "done"
                /\ result' = Unhandled("AttributeError")
                /\ calls' = Append(calls,
                       BackendCall("grok", resolve_model_key, o1, "primary"))
                /\ UNCHANGED state
           ELSE LET out == SelectAndInvoke(ensure_errors(state), o1, o2, draft)
                    final == FinalizeResponse(out)
                IN  /\ state' = [state EXCEPT
                            !.llm_response = final.text,
                            !.response_metadata =
                                [model_key |-> out.used,
                                 model_display |-> get_model_entry(out.used).display_name,
                                 grok_invoked |-> out.grok_invoked],
                            !.errors = final.errors]
                    /\ calls' = calls \o out.calls
                    /\ pc' = "ResponseValidator"
                    /\ UNCHANGED result
    /\ UNCHANGED <<env, payload, tool, probe, store, chat>>

\* a failed evaluation reported as an evaluation without outputs
apply_bedrock_guardrail_swallow(outcome, outputs) ==
    IF env.GUARDRAIL_ID = NONE
    THEN [status |-> "skipped", details |-> "Guardrail ID not configured",
          outputs |-> << >>]
    ELSE [status |-> "applied", details |-> NONE, outputs |-> outputs]

\* apply_bedrock_guardrail: skipped without GUARDRAIL_ID, else one request
apply_bedrock_guardrail(outcome, outputs) ==
    IF env.GUARDRAIL_ID = NONE
    THEN [status |-> "skipped", details |-> "Guardrail ID not configured",
          outputs |-> << >>]
    ELSE IF outcome = "exception"
    THEN [status |-> "error", details |-> "exc", outputs |-> << >>]
    ELSE [status |-> "applied", details |-> NONE, outputs |-> outputs]

\* only the literal NON_COMPLIANT counts, a missing status passes
NonCompliant_literal(guardrail_result) ==
    /\ guardrail_result.status = "applied"
    /\ guardrail_result.outputs # << >>
    /\ guardrail_result.outputs[1].complianceStatus = "NON_COMPLIANT"

\* the verdict response_validator reads: complianceStatus of the first output
NonCompliant(guardrail_result) ==
    /\ guardrail_result.status = "applied"
    /\ guardrail_result.outputs # << >>
    /\ guardrail_result.outputs[1].complianceStatus # "COMPLIANT"

\* the refusal is put in front of the draft, which stays in the text
GuardedResponse_prefixed(guardrail_result, llm_response) ==
    IF NonCompliant(guardrail_result) THEN SAFE_REFUSAL \o llm_response
    ELSE llm_response

\* llm_response after the verdict: the refusal takes the draft's place
GuardedResponse(guardrail_result, llm_response) ==
    IF NonCompliant(guardrail_result) THEN SAFE_REFUSAL ELSE llm_response

\* the confidence gate with <= for <
BelowThreshold_inclusive(confidence_score) ==
    confidence_score <= env.MIN_CONFIDENCE_SCORE

\* confidence_score < MIN_CONFIDENCE_SCORE
BelowThreshold(confidence_score) ==
    confidence_score < env.MIN_CONFIDENCE_SCORE

\* the violation is recorded only when no earlier error was
GateErrors_first(errors, confidence_score) ==
    IF BelowThreshold(confidence_score) /\ errors = << >>
    THEN <<<<"Confidence threshold not met (score=",
             ToString(confidence_score), ", threshold=",
             ToString(env.MIN_CONFIDENCE_SCORE), ")">>>>
    ELSE errors

\* errors after the confidence gate: the violation is appended
GateErrors(errors, confidence_score) ==
    IF BelowThreshold(confidence_score)
    THEN Append(errors,
           <<"Confidence threshold not met (score=",
             ToString(confidence_score), ", threshold=",
             ToString(env.MIN_CONFIDENCE_SCORE), ")">>)
    ELSE errors

\* confidence_score is computed once, before the guardrail is asked
response_validator ==
    /\ pc = "ResponseValidator"
    /\ trace' = Append(trace, "ResponseValidator")
    /\ pc' = "END"
    /\ \E outcome \in {"ok", "exception"}, outputs \in GuardrailOutputs,
          confidence_score \in {combine_confidence(state.citations, state.data_points)} :
        /\ (env.GUARDRAIL_ID = NONE \/ outcome = "exception") => outputs = << >>
        /\ env.GUARDRAIL_ID = NONE => outcome = "ok"
        /\ LET guardrail_result == apply_bedrock_guardrail(outcome, outputs)
               errors0 == ensure_errors(state)
               errors1 == IF guardrail_result.status = "error"
                          THEN Append(errors0,
                                 <<"Guardrail error: ", guardrail_result.details>>)
                          ELSE errors0
               errors2 == IF NonCompliant(guardrail_result)
                          THEN Append(errors1,
                                 <<"Guardrail non-compliance: ",
                                   guardrail_result.outputs[1].complianceStatus>>)
                          ELSE errors1
               response1 == GuardedResponse(guardrail_result, state.llm_response)
               below == BelowThreshold(confidence_score)
               errors3 == GateErrors(errors2, confidence_score)
               response2 == IF below THEN response1 \o LOW_CONFIDENCE_WARNING
                            ELSE response1
           IN  /\ state' = [state EXCEPT
                              !.llm_response = response2,
                              !.confidence_score = confidence_score,
                              !.guardrail_result = guardrail_result,
                              !.errors = errors3]
               /\ calls' = IF env.GUARDRAIL_ID = NONE THEN calls
                           ELSE Append(calls, Call("guardrail", "draft", outcome))
    /\ UNCHANGED <<env, payload, result, tool, probe, store, chat>>

----------------------------------------------------------------------------
(* lambda_handler: the 200 response, and the next invocation                *)

\* the user turn left out
EchoMessages_nouser(messages, query, llm_response) ==
    messages \o
        <<[role |-> "assistant", content |-> llm_response, timestamp |-> "now"]>>

\* messages + [user turn, assistant turn], each stamped with the current time
EchoMessages(messages, query, llm_response) ==
    messages \o
        <<[role |-> "user", content |-> query, timestamp |-> "now"],
          [role |-> "assistant", content |-> llm_response, timestamp |-> "now"]>>

\* the detected turbine model left out of the answer
ResponsePayload_nomodel(st) ==
    [session_id |-> st.session_id,
     response |-> st.llm_response,
     citations |-> st.citations,
     confidence_score |-> st.confidence_score,
     turbine_model |-> NONE,
     data_points |-> st.data_points,
     guardrail_result |-> st.guardrail_result,
     response_metadata |-> st.response_metadata,
     errors |-> st.errors,
     messages |-> EchoMessages(st.messages, st.query, st.llm_response)]

ResponsePayload(st) ==
    [session_id |-> st.session_id,
     response |-> st.llm_response,
     citations |-> st.citations,
     confidence_score |-> st.confidence_score,
     turbine_model |-> st.turbine_model,
     data_points |-> st.data_points,
     guardrail_result |-> st.guardrail_result,
     response_metadata |-> st.response_metadata,
     errors |-> st.errors,
     messages |-> EchoMessages(st.messages, st.query, st.llm_response)]

lambda_handler_return ==
    /\ pc = "END"
    /\ pc' = "done"
    /\ result' = [statusCode |-> 200, body |-> ResponsePayload(state)]
    /\ UNCHANGED <<env, payload, state, trace, calls, tool, probe, store, chat>>

\* the execution environment is reused: module state (env) stays, the rest
\* is per invocation
NextInvocation ==
    /\ pc = "done"
    /\ chat.pc # "invoking"
    /\ pc' = "idle"
    /\ payload' = NoPayload
    /\ state' = UnsetState
    /\ trace' = << >>
    /\ calls' = << >>
    /\ result' = NoResult
    /\ tool' = NoTool
    /\ UNCHANGED <<env, probe, store, chat>>

----------------------------------------------------------------------------
(* Retrieval tool Lambda (agent-tools/retrieval/handler.py)                 *)

\* relevance of _format_results: score / max_score clamped to [0,1], not
\* rounded, as a fraction num/den with den > 0
FormatRelevance(score, max_score) ==
    IF max_score > 0
    THEN [num |-> Clamp01(score, max_score), den |-> max_score]
    ELSE [num |-> Clamp01(0 - score, 0 - max_score), den |-> 0 - max_score]

\* max_score of _format_results: max(...) or 1.0
ToolDivisor(documents) ==
    LET raw == SeqMax([i \in DOMAIN documents |-> documents[i].score])
    IN  IF raw = 0 THEN 1 ELSE raw

\* doc.get("content", ""), cut to 497 characters and "..." when longer than
\* 500
ToolExcerpt(doc) ==
    LET excerpt == IF "content" \in DOMAIN doc THEN doc.content ELSE << >>
    IN  IF Len(excerpt) > 500 THEN Take(excerpt, 497) \o <<".", ".", ".">>
        ELSE excerpt

format_results(documents) ==
    IF documents = << >> THEN << >>
    ELSE LET max_score == ToolDivisor(documents)
         IN  [i \in DOMAIN documents |->
                [source |-> IF "source" \in DOMAIN documents[i]
                            THEN documents[i].source ELSE "unknown",
                 page |-> Get(Metadata(documents[i]), "page"),
                 excerpt |-> ToolExcerpt(documents[i]),
                 relevance_score |-> FormatRelevance(documents[i].score, max_score),
                 \* no DOCUMENTS_BUCKET is configured, so no link is signed
                 url |-> NONE,
                 turbine_model |-> Get(documents[i], "turbine_model"),
                 document_type |-> Get(documents[i], "document_type")]]

retrieval_tool ==
    /\ pc = "idle"
    /\ pc' = "done"
    /\ \E q \in Queries \cup {<< >>}, outcome \in SearchOutcomes, scores \in HitLists :
        /\ outcome # "hits" => scores = << >>
        /\ tool' = IF q = << >>
                   THEN [statusCode |-> 400, documents |-> << >>, citations |-> << >>]
                   ELSE IF outcome = "client_exception"
                   THEN [statusCode |-> 500, documents |-> << >>, citations |-> << >>]
                   ELSE [statusCode |-> 200,
                         documents |-> search_documents(outcome, scores),
                         citations |-> format_results(search_documents(outcome, scores))]
        /\ calls' = IF q = << >> THEN calls
                    ELSE IF outcome = "client_exception"
                    THEN Append(calls, Call("opensearch_client", "endpoint", "exception"))
                    ELSE calls \o SearchCalls(outcome, q)
    /\ UNCHANGED <<env, payload, state, trace, result, probe, store, chat>>

----------------------------------------------------------------------------

Next ==
    \/ lambda_handler_options
    \/ lambda_handler_entry
    \/ query_transformer
    \/ data_fetcher
    \/ knowledge_retriever
    \/ reasoning_engine
    \/ response_validator
    \/ lambda_handler_return
    \/ NextInvocation
    \/ retrieval_tool

Spec == Init /\ [][Next]_vars

TypeOK ==
    /\ env \in Envs
    /\ pc \in {"idle", "QueryTransformer", "DataFetcher", "KnowledgeRetriever",
               "ReasoningEngine", "ResponseValidator", "END", "done"}
    /\ result.statusCode \in {-1, 0, 200, 204, 400}
    /\ tool.statusCode \in {0, 200, 400, 500}

----------------------------------------------------------------------------
(* Chat API handler (api-handlers/chat.py)                                  *)

\* the pipeline configuration the chat requests are run against: telemetry
\* off, no search endpoint, no guardrail
ChatEnv ==
    [BaseEnv EXCEPT !.DATA_FETCH_ENABLED = FALSE, !.OPENSEARCH_ENDPOINT = "",
                    !.GUARDRAIL_ID = NONE]

\* stored exchanges per session
MaxExchanges == 2

\* request bodies: keys are the keys present, nulls those whose value is
\* JSON null; a text may begin or end with whitespace pieces
ChatBodies ==
    {[keys |-> {"query", "session_id"}, nulls |-> {}, query |-> q,
      session_id |-> "s1"] :
        q \in Queries \cup {<< >>, <<" ">>,
                            <<" ", "low", "oil", "pressure", " ">>}}
    \cup {[keys |-> {"query", "session_id"}, nulls |-> {},
           query |-> <<"low", "oil", "pressure">>, session_id |-> " s1 "],
          [keys |-> {"query", "session_id"}, nulls |-> {},
           query |-> <<"low", "oil", "pressure">>, session_id |-> " "],
          [keys |-> {"query"}, nulls |-> {},
           query |-> <<"oil", "pressure", "SMT60">>, session_id |-> ""],
          [keys |-> {"session_id"}, nulls |-> {}, query |-> << >>,
           session_id |-> "s1"],
          [keys |-> {}, nulls |-> {}, query |-> << >>, session_id |-> ""],
          [keys |-> {"query", "session_id"}, nulls |-> {"query"},
           query |-> << >>, session_id |-> "s1"],
          [keys |-> {"session_id"}, nulls |-> {"session_id"},
           query |-> << >>, session_id |-> ""],
          [keys |-> {"query", "session_id"}, nulls |-> {"session_id"},
           query |-> << >>, session_id |-> ""],
          [keys |-> {"query", "session_id"}, nulls |-> {"session_id"},
           query |-> <<"low", "oil", "pressure">>, session_id |-> ""]}

\* str.strip() of a session id
StripId(id) ==
    CASE id = " s1 " -> "s1"
      [] id = " " -> ""
      [] OTHER -> id

\* body.get("query", "") and body.get("session_id", "")
BodyQuery(body) == IF "query" \in body.keys THEN body.query ELSE << >>
BodySession(body) == IF "session_id" \in body.keys THEN body.session_id ELSE ""

SessionCall(op, session_id, outcome) ==
    [to |-> "sessions", op |-> op, arg |-> session_id, outcome |-> outcome]

StoreOutcomes == {"ok", "client_error"}

\* a query is never turned away
QueryRejected_never(query) == FALSE

\* if not query
QueryRejected(query) == query = << >>

\* process_query up to the synchronous invoke of the agent workflow
process_query ==
    /\ chat.pc = "idle"
    /\ pc \in {"idle", "done"}
    /\ \E body \in ChatBodies, load \in StoreOutcomes :
        IF body.nulls # {}
        THEN /\ load = "ok"
             /\ chat' = [chat EXCEPT !.pc = "done", !.method = "POST", !.body = body,
                            !.result = [statusCode |-> 500,
                                        body |-> [error |-> "AttributeError"]]]
        ELSE LET query == Strip(BodyQuery(body))
                 stripped_id == StripId(BodySession(body))
             IN  IF QueryRejected(query)
                 THEN /\ load = "ok"
                      /\ chat' = [chat EXCEPT !.pc = "done", !.method = "POST", !.body = body,
                                     !.result = [statusCode |-> 400,
                                                 body |-> [error |-> "Query is required"]]]
                 ELSE \E session_id \in SessionIds :
                        /\ IF stripped_id = ""
                           THEN session_id = "session-generated" /\ store[session_id] = << >>
                           ELSE session_id = stripped_id
                        /\ Len(store[session_id]) < 2 * MaxExchanges
                        /\ pc = "idle"
                        /\ LET messages == IF load = "ok" THEN store[session_id] ELSE << >>
                           IN  chat' = [chat EXCEPT
                                  !.pc = "invoking", !.method = "POST", !.body = body,
                                  !.calls = <<SessionCall("get_item", session_id, load),
                                              [to |-> "lambda", op |-> "invoke",
                                               arg |-> session_id, outcome |-> "-"]>>,
                                  !.payload = [keys |-> {"session_id", "query", "messages"},
                                               session_id |-> session_id,
                                               query |-> query,
                                               inputText |-> << >>,
                                               messages |-> messages]]
    /\ UNCHANGED <<env, pc, payload, state, trace, calls, result, tool, probe, store>>

\* process_query from the reply of the invoke to its return
process_query_return ==
    /\ chat.pc = "invoking"
    /\ pc = "done"
    /\ \E save \in StoreOutcomes :
        IF result.statusCode # 200
        THEN /\ save = "ok"
             /\ chat' = [chat EXCEPT !.pc = "done",
                            !.result = [statusCode |-> IF result.statusCode = -1
                                                       THEN 500
                                                       ELSE result.statusCode,
                                        body |-> IF result.statusCode = -1
                                                 THEN [error |-> NONE]
                                                 ELSE result.body]]
             /\ UNCHANGED store
        ELSE LET session_id == chat.payload.session_id
             IN  /\ store' = IF save = "ok"
                             THEN [store EXCEPT ![session_id] = result.body.messages]
                             ELSE store
                 /\ chat' = [chat EXCEPT !.pc = "done",
                                !.calls = Append(chat.calls,
                                            SessionCall("put_item", session_id, save)),
                                !.result = [statusCode |-> 200,
                                            body |-> [session_id |-> session_id,
                                                      response |-> result.body.response,
                                                      citations |-> result.body.citations,
                                                      confidence_score |-> result.body.confidence_score,
                                                      turbine_model |-> result.body.turbine_model]]]
    /\ UNCHANGED <<env, pc, payload, state, trace, calls, result, tool, probe>>

\* GET /chat/{session_id}: the stored messages of the session; a session
\* without an item is not found
get_session_history ==
    /\ chat.pc = "idle"
    /\ pc = "idle"
    /\ \E session_id \in {"s1", ""}, load \in StoreOutcomes :
        IF session_id = ""
        THEN /\ load = "ok"
             /\ chat' = [chat EXCEPT !.pc = "done", !.method = "GET",
                            !.result = [statusCode |-> 400,
                                        body |-> [error |-> "Session ID is required"]]]
        ELSE chat' = [chat EXCEPT !.pc = "done", !.method = "GET",
                         !.calls = <<SessionCall("get_item", session_id, load)>>,
                         !.result =
                            IF load # "ok"
                            THEN [statusCode |-> 500, body |-> [error |-> "ClientError"]]
                            ELSE IF store[session_id] = << >>
                            THEN [statusCode |-> 404,
                                  body |-> [error |-> "Session not found"]]
                            ELSE [statusCode |-> 200,
                                  body |-> [session_id |-> session_id,
                                            messages |-> store[session_id]]]]
    /\ UNCHANGED <<env, pc, payload, state, trace, calls, result, tool, probe, store>>

\* DELETE /chat/{session_id}: the item of the session is removed
delete_session ==
    /\ chat.pc = "idle"
    /\ pc = "idle"
    /\ \E session_id \in {"s1", ""}, delete \in StoreOutcomes :
        IF session_id = ""
        THEN /\ delete = "ok"
             /\ chat' = [chat EXCEPT !.pc = "done", !.method = "DELETE",
                            !.result = [statusCode |-> 400,
                                        body |-> [error |-> "Session ID is required"]]]
             /\ UNCHANGED store
        ELSE /\ chat' = [chat EXCEPT !.pc = "done", !.method = "DELETE",
                            !.calls = <<SessionCall("delete_item", session_id, delete)>>,
                            !.result =
                               IF delete = "ok"
                               THEN [statusCode |-> 200,
                                     body |-> [message |-> "Session deleted"]]
                               ELSE [statusCode |-> 500,
                                     body |-> [error |-> "ClientError"]]]
             /\ store' = IF delete = "ok" THEN [store EXCEPT ![session_id] = << >>]
                         ELSE store
    /\ UNCHANGED <<env, pc, payload, state, trace, calls, result, tool, probe>>

\* A POST /chat served by another execution environment while this one waits
\* for its invoke, on the same session (a session id generated for the waiting
\* request is not known to anyone yet).  The other POST /chat asks
\* OverlapQuery; its get_item and its put_item are separate steps, so its
\* put_item can fall before or after the put_item of the waiting request.
\* The stages of the workflow neither read nor write the sessions table, so
\* the steps of the other request are taken when the workflow has returned:
\* the get_item before the put_item of the waiting request, the put_item
\* before or after it.
OverlapQuery == <<"low", "oil", "pressure">>

\* what the other request's invoke can answer: a 200 with a generated or the
\* failure text, gated (the confidence is 0.4 in ChatEnv), or no statusCode
\* after an unhandled exception of the workflow
OverlapReplies ==
    {[statusCode |-> 200, response |-> <<"draft answer">> \o LOW_CONFIDENCE_WARNING],
     [statusCode |-> 200, response |-> FAILURE_SENTINEL \o LOW_CONFIDENCE_WARNING],
     [statusCode |-> 500, response |-> << >>]}

\* the other process_query up to its invoke
process_query_other ==
    /\ chat.pc = "invoking"
    /\ chat.payload.session_id = "s1"
    /\ chat.other.pc = "idle"
    /\ pc = "done"
    /\ Len(store["s1"]) < 2 * MaxExchanges
    /\ \E load \in StoreOutcomes :
        chat' = [chat EXCEPT !.other =
                    [pc |-> "invoking",
                     messages |-> IF load = "ok" THEN store["s1"] ELSE << >>]]
    /\ UNCHANGED <<env, pc, payload, state, trace, calls, result, tool, probe, store>>

\* the other process_query from the reply of its invoke to its return
process_query_other_return ==
    /\ chat.other.pc = "invoking"
    /\ pc \in {"idle", "done"}
    /\ \E reply \in OverlapReplies, save \in StoreOutcomes :
        /\ reply.statusCode # 200 => save = "ok"
        /\ store' = IF reply.statusCode = 200 /\ save = "ok"
                    THEN [store EXCEPT !["s1"] =
                            EchoMessages(chat.other.messages, OverlapQuery,
                                         reply.response)]
                    ELSE store
    /\ chat' = [chat EXCEPT !.other = OtherIdle]
    /\ UNCHANGED <<env, pc, payload, state, trace, calls, result, tool, probe>>

\* DELETE /chat/s1 served by another execution environment while this one
\* waits for its invoke
delete_session_other ==
    /\ chat.pc = "invoking"
    /\ chat.payload.session_id = "s1"
    /\ pc = "done"
    /\ store["s1"] # << >>
    /\ store' = [store EXCEPT !["s1"] = << >>]
    /\ UNCHANGED <<env, pc, payload, state, trace, calls, result, tool, probe, chat>>

\* the next API request of this execution environment; an overlapping
\* request has returned by then (one overlapping request per request)
NextRequest ==
    /\ chat.pc = "done"
    /\ chat.other.pc = "idle"
    /\ chat' = [ChatIdle EXCEPT !.other = chat.other]
    /\ UNCHANGED <<env, pc, payload, state, trace, calls, result, tool, probe, store>>

InitChat ==
    /\ env = ChatEnv
    /\ pc = "idle"
    /\ payload = NoPayload
    /\ state = UnsetState
    /\ trace = << >>
    /\ calls = << >>
    /\ result = NoResult
    /\ tool = NoTool
    /\ probe = NoProbe
    /\ store = NoSessions
    /\ chat = ChatIdle

NextChat ==
    \/ process_query
    \/ process_query_return
    \/ get_session_history
    \/ delete_session
    \/ process_query_other
    \/ process_query_other_return
    \/ delete_session_other
    \/ NextRequest
    \/ lambda_handler_entry
    \/ query_transformer
    \/ data_fetcher
    \/ knowledge_retriever
    \/ reasoning_engine
    \/ response_validator
    \/ lambda_handler_return
    \/ NextInvocation

SpecChat == InitChat /\ [][NextChat]_vars

----------------------------------------------------------------------------
(* resolve_model_key and resolve_fallback_model_key applied on their own    *)

\* keys a configuration or AGENT_MODEL_KEY may name; "ghost" has no entry
ConfigEntries == {NovaEntry, ClaudeEntry, GrokEntry}
KeyNames == {NONE, "nova_pro", "claude_4_5", "grok", "ghost"}

\* the models of a configuration file, in the order of the file
ModelLists ==
    {ms \in UNION {[1..n -> ConfigEntries] : n \in 0..Cardinality(ConfigEntries)} :
        \A i, j \in DOMAIN ms : i # j => ms[i].key # ms[j].key}

ModelConfigs ==
    {[default_model |-> dk, fallback_model |-> fk, models |-> ms] :
        dk \in KeyNames, fk \in KeyNames, ms \in ModelLists}

InitResolve ==
    /\ env \in {[BaseEnv EXCEPT !.MODEL_CONFIG = c, !.AGENT_MODEL_KEY = o] :
                    c \in ModelConfigs, o \in KeyNames}
    /\ pc = "idle"
    /\ payload = NoPayload
    /\ state = UnsetState
    /\ trace = << >>
    /\ calls = << >>
    /\ result = NoResult
    /\ tool = NoTool
    /\ probe \in {[fn |-> "resolve_model_key", primary_key |-> k,
                   applied |-> FALSE, model_key |-> NONE, fallback_key |-> NONE] :
                    k \in KeyNames \ {NONE}}
    /\ store = NoSessions
    /\ chat = ChatIdle

apply_resolve_model_key ==
    /\ probe.fn = "resolve_model_key"
    /\ ~probe.applied
    /\ probe' = [probe EXCEPT
                    !.applied = TRUE,
                    !.model_key = resolve_model_key,
                    !.fallback_key = resolve_fallback_model_key(probe.primary_key)]
    /\ UNCHANGED <<env, pc, payload, state, trace, calls, result, tool, store, chat>>

NextResolve == apply_resolve_model_key

SpecResolve == InitResolve /\ [][NextResolve]_vars

----------------------------------------------------------------------------
(* Conversation history handed to the reasoning backends                    *)

ALLOWED_ROLES == {"user", "assistant"}

\* str.lower() of the role strings that occur
LowerRole(role) ==
    CASE role = "User" -> "user"
      [] role = "ASSISTANT" -> "assistant"
      [] role = "System" -> "system"
      [] role = "None" -> "none"
      [] OTHER -> role

\* every role other than "user" is sent as "assistant"
normalize_role_exact(role) ==
    IF role = "user" THEN "user" ELSE "assistant"

\* _normalize_role: (role or "user").lower(), "assistant" unless allowed
normalize_role(role) ==
    LET lowered == LowerRole(IF role = "" THEN "user" ELSE role)
    IN  IF lowered \in ALLOWED_ROLES THEN lowered ELSE "assistant"

\* msg.get("role", "user") and msg.get("content", "")
RawRole(msg) == IF "role" \in DOMAIN msg THEN msg.role ELSE "user"
extract_text(msg) == IF "content" \in DOMAIN msg THEN msg.content ELSE << >>

format_conversation_history(messages) ==
    [i \in DOMAIN messages |->
        [role |-> normalize_role(RawRole(messages[i])),
         text |-> extract_text(messages[i])]]

\* conversation_history of run_bedrock_model as invoke_llm puts it in front
\* of the prompt, and messages of the payload posted by call_grok_api
BedrockHistory(messages) == format_conversation_history(messages)
GrokMessages(messages) == messages

\* longest list of prior turns
MaxTurns == 6

\* roles of prior turns; NONE is a role of JSON null, which str() turns into
\* the text "None"
TurnRoles == {"user", "assistant", "system", "User", "", NONE}

\* turn i holds the text "turn i"; a turn may lack the role key
PriorTurn(i, role) ==
    IF role = "-" THEN [content |-> <<"turn", ToString(i)>>, timestamp |-> "earlier"]
    ELSE [role |-> role, content |-> <<"turn", ToString(i)>>, timestamp |-> "earlier"]

InitHistory ==
    /\ env = BaseEnv
    /\ pc = "idle"
    /\ payload = NoPayload
    /\ state = UnsetState
    /\ trace = << >>
    /\ calls = << >>
    /\ result = NoResult
    /\ tool = NoTool
    /\ \E n \in 0..MaxTurns : \E rs \in [1..n -> TurnRoles \cup {"-"}] :
        LET messages == [i \in 1..n |-> PriorTurn(i, rs[i])]
        IN  \/ probe = [fn |-> "conversation_history", messages |-> messages,
                        applied |-> FALSE, bedrock |-> << >>, grok |-> << >>]
            \/ probe = [fn |-> "enrich_query", messages |-> messages,
                        applied |-> FALSE, recent_user_context |-> << >>]
    /\ store = NoSessions
    /\ chat = ChatIdle

apply_conversation_history ==
    /\ probe.fn = "conversation_history"
    /\ ~probe.applied
    /\ probe' = [probe EXCEPT
                    !.applied = TRUE,
                    !.bedrock = BedrockHistory(probe.messages),
                    !.grok = GrokMessages(probe.messages)]
    /\ UNCHANGED <<env, pc, payload, state, trace, calls, result, tool, store, chat>>

apply_enrich_query ==
    /\ probe.fn = "enrich_query"
    /\ ~probe.applied
    /\ \E query \in Queries :
        probe' = [probe EXCEPT
                    !.applied = TRUE,
                    !.recent_user_context =
                        enrich_query(query, detect_turbine_model(query),
                                     probe.messages).recent_user_context]
    /\ UNCHANGED <<env, pc, payload, state, trace, calls, result, tool, store, chat>>

NextHistory == apply_conversation_history \/ apply_enrich_query

SpecHistory == InitHistory /\ [][NextHistory]_vars

----------------------------------------------------------------------------
(* combine_confidence applied on its own to two citation lists              *)

Citation(r) ==
    [source |-> IndexedSource, page |-> 1, relevance_score |-> r,
     excerpt |-> ChunkText, section |-> NONE]

CitationLists ==
    UNION {[1..n -> {Citation(r) : r \in RelevanceValues}] : n \in 0..MaxCitations}

InitConfidence ==
    /\ env = BaseEnv
    /\ pc = "idle"
    /\ payload = NoPayload
    /\ state = UnsetState
    /\ trace = << >>
    /\ calls = << >>
    /\ result = NoResult
    /\ tool = NoTool
    /\ store = NoSessions
    /\ chat = ChatIdle
    /\ probe \in {[fn |-> "combine_confidence", a |-> a, b |-> b,
                   data_points |-> d, applied |-> FALSE, out_a |-> 0, out_b |-> 0] :
                    a \in CitationLists, b \in CitationLists,
                    d \in {<< >>, <<TelemetryReading>>}}

apply_combine_confidence ==
    /\ probe.fn = "combine_confidence"
    /\ ~probe.applied
    /\ probe' = [probe EXCEPT
                    !.applied = TRUE,
                    !.out_a = combine_confidence(probe.a, probe.data_points),
                    !.out_b = combine_confidence(probe.b, probe.data_points)]
    /\ UNCHANGED <<env, pc, payload, state, trace, calls, result, tool, store, chat>>

NextConfidence == apply_combine_confidence

SpecConfidence == InitConfidence /\ [][NextConfidence]_vars

----------------------------------------------------------------------------
(* detect_turbine_model applied on its own to a text                        *)

\* words with an alias inside in some spelling, and words without
ProbeWords ==
    {"oil", "SMT", "60", "SMT60s", "Taurus60", "TAURUS-60", "xSMT130",
     "Titan130", "titan-130", "TM2500", "LM2500"}

ProbeTexts == UNION {[1..n -> ProbeWords] : n \in 0..MaxWords}

InitDetect ==
    /\ env = BaseEnv
    /\ pc = "idle"
    /\ payload = NoPayload
    /\ state = UnsetState
    /\ trace = << >>
    /\ calls = << >>
    /\ result = NoResult
    /\ tool = NoTool
    /\ store = NoSessions
    /\ chat = ChatIdle
    /\ probe \in {[fn |-> "detect_turbine_model", text |-> t,
                   applied |-> FALSE, out |-> NONE] : t \in ProbeTexts}

apply_detect_turbine_model ==
    /\ probe.fn = "detect_turbine_model"
    /\ ~probe.applied
    /\ probe' = [probe EXCEPT !.applied = TRUE,
                              !.out = detect_turbine_model(probe.text)]
    /\ UNCHANGED <<env, pc, payload, state, trace, calls, result, tool, store, chat>>

NextDetect == apply_detect_turbine_model

SpecDetect == InitDetect /\ [][NextDetect]_vars

----------------------------------------------------------------------------
(* Properties                                                               *)

Stages ==
    <<"QueryTransformer", "DataFetcher", "KnowledgeRetriever",
      "ReasoningEngine", "ResponseValidator">>

\* the current invocation is a request with a non-empty query
Accepted == payload # NoPayload /\ PayloadQuery(payload) # << >>

\* the requests made to reasoning backends in this invocation
BackendCalls == SelectSeq(calls, LAMBDA c : c.role # "-")
PrimaryCalls == SelectSeq(calls, LAMBDA c : c.role = "primary")
FallbackCalls == SelectSeq(calls, LAMBDA c : c.role = "fallback")

Last(s) == s[Len(s)]

ExhaustedEntry ==
    <<"ReasoningEngine unable to produce a response from configured models.">>

\* C1: every accepted request runs the five nodes once each, in the order
\* QueryTransformer, DataFetcher, KnowledgeRetriever, ReasoningEngine,
\* ResponseValidator, whatever the collaborators answered: while it runs the
\* nodes entered are a prefix of that order, and when it ends all five ran.
C1_StagesOnceInOrder ==
    /\ IsPrefix(trace, Stages)
    /\ (Accepted /\ pc = "done") => trace = Stages

\* C2: every accepted request ends in the 200 result that carries response,
\* confidence_score, guardrail_result and errors; no node raises out of the
\* handler.
C2_AlwaysOkResult ==
    (Accepted /\ pc = "done") =>
        /\ result.statusCode = 200
        /\ result.body.response = state.llm_response
        /\ result.body.confidence_score = state.confidence_score
        /\ result.body.guardrail_result = state.guardrail_result
        /\ result.body.errors = state.errors

\* C3: errors is append-only: it is empty when the graph is entered, every
\* node leaves the list it found as a prefix of the list it returns, and the
\* errors field of the response is the list the last node returned.
C3_ErrorsAppendOnly ==
    [][/\ (pc = "idle" /\ pc' = "QueryTransformer") => state'.errors = << >>
       /\ (pc \in Range(Stages)) => IsPrefix(state.errors, state'.errors)
       /\ (pc = "END" /\ pc' = "done") => result'.body.errors = state.errors]_vars

C3_Witness ==
    /\ pc = "done"
    /\ result.statusCode = 200
    /\ Len(result.body.errors) >= 4
    /\ result.body.errors[1] = <<"DataFetcher: ", "RequestException">>

\* C4: when the primary reasoning backend raised or returned nothing and a
\* fallback model is configured, the fallback is invoked exactly once and
\* response_metadata.model_key is the fallback key; for a Grok primary and
\* for a Bedrock primary (missing client, missing model id, exception,
\* empty text).
C4_FallbackInvokedOnce ==
    (pc = "ResponseValidator" /\ Len(PrimaryCalls) = 1
        /\ PrimaryCalls[1].outcome # "text"
        /\ resolve_fallback_model_key(PrimaryCalls[1].arg) # NONE) =>
        /\ Len(FallbackCalls) = 1
        /\ state.response_metadata.model_key = FallbackCalls[1].arg
        /\ FallbackCalls[1].arg = resolve_fallback_model_key(PrimaryCalls[1].arg)

\* C5: after ReasoningEngine llm_response is not empty; it is the failure
\* sentinel exactly when no backend produced text, and then (and only then)
\* the failure is the last entry of errors.
C5_SentinelWhenExhausted ==
    pc = "ResponseValidator" =>
        LET produced == \E i \in DOMAIN BackendCalls : BackendCalls[i].outcome = "text"
        IN  /\ state.llm_response # << >>
            /\ (state.llm_response = FAILURE_SENTINEL) <=> ~produced
            /\ ~produced => (state.errors # << >> /\ Last(state.errors) = ExhaustedEntry)
            /\ produced => (ExhaustedEntry \notin Range(state.errors)
                            /\ state.llm_response \in Drafts)

C5_Witness ==
    /\ pc = "ResponseValidator"
    /\ Len(BackendCalls) = 2
    /\ \A i \in DOMAIN BackendCalls : BackendCalls[i].outcome # "text"
    /\ state.llm_response = FAILURE_SENTINEL

\* C6: when the first guardrail output is not COMPLIANT, the draft is
\* replaced by the safe-refusal message (followed only by the low-confidence
\* warning when the gate fires too) and the compliance code is in errors,
\* whatever the confidence score.
C6_RefusalOnNonCompliance ==
    (pc = "END" /\ state.guardrail_result.status = "applied"
        /\ state.guardrail_result.outputs # << >>
        /\ state.guardrail_result.outputs[1].complianceStatus # "COMPLIANT") =>
        /\ state.llm_response \in {SAFE_REFUSAL, SAFE_REFUSAL \o LOW_CONFIDENCE_WARNING}
        /\ <<"Guardrail non-compliance: ",
             state.guardrail_result.outputs[1].complianceStatus>> \in Range(state.errors)

C6_Witness ==
    /\ pc = "END"
    /\ state.guardrail_result.status = "applied"
    /\ state.guardrail_result.outputs = <<[complianceStatus |-> NONE]>>
    /\ state.confidence_score >= env.MIN_CONFIDENCE_SCORE
    /\ state.llm_response = SAFE_REFUSAL

ThresholdEntry(score) ==
    <<"Confidence threshold not met (score=", ToString(score), ", threshold=",
      ToString(env.MIN_CONFIDENCE_SCORE), ")">>

\* C7: after ResponseValidator, a confidence score below the configured
\* minimum means the response ends with the low-confidence warning, after a
\* non-empty text (the draft or the safe refusal), and the violation is the
\* last entry of errors; a score at or above the minimum means no warning and
\* no such entry. Either way that text is the response of the 200 result.
C7_ConfidenceGate ==
    /\ pc = "END" =>
        /\ state.confidence_score < env.MIN_CONFIDENCE_SCORE =>
            /\ Len(state.llm_response) >= 2
            /\ <<Last(state.llm_response)>> = LOW_CONFIDENCE_WARNING
            /\ Last(state.errors) = ThresholdEntry(state.confidence_score)
        /\ state.confidence_score >= env.MIN_CONFIDENCE_SCORE =>
            /\ state.llm_response # << >>
            /\ LOW_CONFIDENCE_WARNING[1] \notin Range(state.llm_response)
            /\ ThresholdEntry(state.confidence_score) \notin Range(state.errors)
    /\ (pc = "done" /\ trace = Stages) =>
        /\ result.statusCode = 200
        /\ result.body.response = state.llm_response
        /\ result.body.response # << >>

C7_Witness ==
    /\ pc = "done"
    /\ result.statusCode = 200
    /\ result.body.confidence_score < env.MIN_CONFIDENCE_SCORE
    /\ result.body.citations # << >>
    /\ result.body.response = SAFE_REFUSAL \o LOW_CONFIDENCE_WARNING

\* the embedding call or the index search of this invocation raised
SearchRaised ==
    \E i \in DOMAIN calls :
        calls[i].to \in {"embedding", "search"} /\ calls[i].outcome = "exception"

\* C8: when the embedding call or the index search raised, KnowledgeRetriever
\* returns no documents and no citations with a degraded context, errors has
\* a retrieval-failure entry, and ReasoningEngine still yields a response.
C8_SearchFailureRecorded ==
    /\ (pc = "ReasoningEngine" /\ SearchRaised) =>
        /\ state.retrieved_documents = << >>
        /\ state.citations = << >>
        /\ state.hierarchical_context \in
              {NO_DOCS_CONTEXT, FAILED_CONTEXT, UNAVAILABLE_CONTEXT}
        /\ \E i \in DOMAIN state.errors : state.errors[i][1] = "KnowledgeRetriever: "
    /\ (pc = "ResponseValidator" /\ SearchRaised) => state.llm_response # << >>

\* C9 as claimed: whenever retrieved_documents is empty after
\* KnowledgeRetriever, hierarchical_context is the "No relevant
\* documentation" sentinel and citations is empty.
C9_EmptyMeansSentinel ==
    (pc = "ReasoningEngine" /\ state.retrieved_documents = << >>) =>
        /\ state.hierarchical_context = NO_DOCS_CONTEXT
        /\ state.citations = << >>

\* C9 amended: whenever retrieved_documents is empty after
\* KnowledgeRetriever, citations is empty and hierarchical_context is the
\* "No relevant documentation" sentinel if search_documents returned (no
\* hits, or a failure it swallowed), "Knowledge retrieval is currently
\* unavailable." if no endpoint is configured, and "Knowledge retrieval
\* failed." if the node caught an exception.
C9_EmptyContextByCause ==
    (pc = "ReasoningEngine" /\ state.retrieved_documents = << >>) =>
        /\ state.citations = << >>
        /\ state.hierarchical_context =
            IF env.OPENSEARCH_ENDPOINT = "" THEN UNAVAILABLE_CONTEXT
            ELSE IF \E i \in DOMAIN calls : calls[i].to = "opensearch_client"
                                            /\ calls[i].outcome = "exception"
            THEN FAILED_CONTEXT
            ELSE NO_DOCS_CONTEXT

C9_Witness ==
    /\ pc = "ReasoningEngine"
    /\ state.retrieved_documents = << >>
    /\ \E i \in DOMAIN calls : calls[i].to = "search" /\ calls[i].outcome = "ok"
    /\ state.hierarchical_context = NO_DOCS_CONTEXT

RawScores(documents) == [i \in DOMAIN documents |-> documents[i].score]

\* C10: for every list of hits, with positive, zero or negative raw scores,
\* each citation's relevance_score is in [0,1], the divisor is not zero, and
\* when the largest raw score is positive the hits that have it get 1.0; in
\* normalize_citations of the workflow and in _format_results of the tool.
C10_RelevanceInUnitInterval ==
    /\ \A i \in DOMAIN state.citations :
            state.citations[i].relevance_score \in 0..1000
    /\ state.retrieved_documents # << >> =>
        /\ CitationDivisor(state.retrieved_documents) # 0
        /\ DOMAIN state.citations = DOMAIN state.retrieved_documents
        /\ SeqMax(RawScores(state.retrieved_documents)) > 0 =>
            \A i \in DOMAIN state.citations :
                state.retrieved_documents[i].score
                    = SeqMax(RawScores(state.retrieved_documents))
                => state.citations[i].relevance_score = 1000
    /\ \A i \in DOMAIN tool.citations :
            /\ tool.citations[i].relevance_score.den > 0
            /\ tool.citations[i].relevance_score.num \in
                    0..tool.citations[i].relevance_score.den
    /\ tool.documents # << >> =>
        /\ ToolDivisor(tool.documents) # 0
        /\ DOMAIN tool.citations = DOMAIN tool.documents
        /\ SeqMax(RawScores(tool.documents)) > 0 =>
            \A i \in DOMAIN tool.citations :
                tool.documents[i].score = SeqMax(RawScores(tool.documents))
                => tool.citations[i].relevance_score.num
                        = tool.citations[i].relevance_score.den

C10_Witness ==
    /\ pc = "ReasoningEngine"
    /\ RawScores(state.retrieved_documents) = <<80, 3>>
    /\ state.citations[1].relevance_score = 1000
    /\ state.citations[2].relevance_score = 37

Relevances(document_citations) ==
    [i \in DOMAIN document_citations |-> document_citations[i].relevance_score]

\* combine_confidence was applied to probe.a and probe.b
ConfidenceApplied == probe.fn = "combine_confidence" /\ probe.applied

\* out (thousandths) is a thousandth nearest to the value of the formula for
\* these citations and telemetry, capped at 0.98
MatchesFormula(document_citations, data_points, out) ==
    LET n == Len(document_citations)
        total == SeqSum(Relevances(document_citations))
        \* the value of the formula is num / den thousandths
        den == IF n = 0 THEN 1 ELSE 100 * n
        base == IF n = 0 THEN 400 ELSE 55000 * n + 35 * total
        num == IF data_points # << >> THEN base + 50 * den ELSE base
    IN  \E k \in 0..2000 :
            /\ 2 * (k * den - num) <= den
            /\ 2 * (num - k * den) <= den
            /\ out = IF k > 980 THEN 980 ELSE k

\* C11: combine_confidence is 0.4 without citations and 0.55 + 0.35 * (mean
\* relevance_score) with citations, plus 0.05 when data_points is not empty,
\* rounded to three decimals and capped at 0.98; for relevance scores in
\* [0,1] the result is in [0.4, 0.98].
C11_ConfidenceFormula ==
    ConfidenceApplied =>
        /\ MatchesFormula(probe.a, probe.data_points, probe.out_a)
        /\ MatchesFormula(probe.b, probe.data_points, probe.out_b)
        /\ probe.out_a \in 400..980
        /\ probe.out_b \in 400..980
        /\ probe.a = << >> =>
                probe.out_a = IF probe.data_points = << >> THEN 400 ELSE 450

C11_Witness ==
    /\ ConfidenceApplied
    /\ Relevances(probe.a) = <<20, 680>>
    /\ Relevances(probe.b) = << >>
    /\ probe.data_points # << >>
    /\ probe.out_a = 723
    /\ probe.out_b = 450

\* the arithmetic means of the relevance scores of a and b, compared
MeanLess(a, b) ==
    SeqSum(Relevances(a)) * Len(b) < SeqSum(Relevances(b)) * Len(a)
MeanEqual(a, b) ==
    SeqSum(Relevances(a)) * Len(b) = SeqSum(Relevances(b)) * Len(a)

\* C12 as claimed: with the same telemetry, for non-empty citation lists A
\* and B with mean relevance of A <= mean relevance of B,
\* combine_confidence(A) <= combine_confidence(B).
C12_MonotoneInMeanRelevance ==
    (ConfidenceApplied /\ probe.a # << >> /\ probe.b # << >>) =>
        /\ (MeanLess(probe.a, probe.b) \/ MeanEqual(probe.a, probe.b))
                => probe.out_a <= probe.out_b
        /\ (MeanLess(probe.b, probe.a) \/ MeanEqual(probe.a, probe.b))
                => probe.out_b <= probe.out_a

\* C12 amended: with the same telemetry, for non-empty citation lists A and
\* B, a smaller mean relevance of A gives combine_confidence(A) <=
\* combine_confidence(B), and equal means give results that are equal or
\* 0.001 apart.
C12_MonotoneUpToRounding ==
    (ConfidenceApplied /\ probe.a # << >> /\ probe.b # << >>) =>
        /\ MeanLess(probe.a, probe.b) => probe.out_a <= probe.out_b
        /\ MeanLess(probe.b, probe.a) => probe.out_b <= probe.out_a
        /\ MeanEqual(probe.a, probe.b) =>
                probe.out_a - probe.out_b \in {-1, 0, 1}

\* two lists of the same mean 0.35, where 0.55 + 0.35 * 0.35 is halfway
\* between two thousandths and the float sums of the scores differ in the
\* last bit
C12_Witness ==
    /\ ConfidenceApplied
    /\ Relevances(probe.a) = <<263, 437>>
    /\ Relevances(probe.b) = <<20, 680>>
    /\ MeanEqual(probe.a, probe.b)
    /\ probe.data_points = << >>
    /\ probe.out_a = 672
    /\ probe.out_b = 673


\* the parts of a healthy run of this invocation
NamesSMT60 == "SMT60" \in Range(state.query)
SearchFoundHits == state.retrieved_documents # << >>
TelemetryOk == state.data_fetch_status \in {"disabled", "success"}
SomeBackendAnswered ==
    \E i \in DOMAIN BackendCalls : BackendCalls[i].outcome = "text"
PrimaryAnswered ==
    BackendCalls # << >> /\ \A i \in DOMAIN BackendCalls : BackendCalls[i].outcome = "text"
GuardrailPassed ==
    \/ state.guardrail_result.status = "skipped"
    \/ /\ state.guardrail_result.status = "applied"
       /\ state.guardrail_result.outputs # << >>
       /\ state.guardrail_result.outputs[1].complianceStatus = "COMPLIANT"
Returned200 == pc = "done" /\ result.statusCode = 200

\* C13 as claimed: a run for a query naming the SMT60 in which the search
\* returned a hit, telemetry was disabled or succeeded, a reasoning backend
\* returned text and the guardrail was skipped or compliant answers with
\* turbine_model SMT60, citations, a confidence in [0.4, 0.98] and no errors.
C13_HealthyRunNoErrors ==
    (Returned200 /\ NamesSMT60 /\ SearchFoundHits /\ TelemetryOk
        /\ SomeBackendAnswered /\ GuardrailPassed) =>
        /\ result.body.turbine_model = "SMT60"
        /\ result.body.citations # << >>
        /\ result.body.confidence_score \in 400..980
        /\ result.body.errors = << >>

\* C13 amended: when moreover it was the primary backend that returned the
\* text, the answer has turbine_model SMT60, one citation per hit and a
\* confidence in [0.55, 0.98]; errors is empty if that confidence is at least
\* MIN_CONFIDENCE_SCORE and otherwise holds the confidence-threshold entry
\* alone, the response being the draft followed by the warning.
C13_HealthyRunErrorsOnlyFromGate ==
    (Returned200 /\ NamesSMT60 /\ SearchFoundHits /\ TelemetryOk
        /\ PrimaryAnswered /\ GuardrailPassed) =>
        /\ result.body.turbine_model = "SMT60"
        /\ Len(result.body.citations) = Len(state.retrieved_documents)
        /\ result.body.citations # << >>
        /\ result.body.confidence_score \in 550..980
        /\ result.body.confidence_score >= env.MIN_CONFIDENCE_SCORE =>
                /\ result.body.errors = << >>
                /\ result.body.response \in Drafts
        /\ result.body.confidence_score < env.MIN_CONFIDENCE_SCORE =>
                /\ result.body.errors =
                        <<ThresholdEntry(result.body.confidence_score)>>
                /\ \E draft \in Drafts :
                        result.body.response = draft \o LOW_CONFIDENCE_WARNING

C13_Witness ==
    /\ Returned200 /\ NamesSMT60 /\ TelemetryOk /\ PrimaryAnswered /\ GuardrailPassed
    /\ state.guardrail_result.status = "applied"
    /\ state.data_fetch_status = "success"
    /\ Len(result.body.citations) = 2
    /\ result.body.confidence_score = 781
    /\ result.body.errors = << >>


\* the aliases (by position in the declared order) spelled inside a word
AliasesInWord(w) ==
    CASE w \in {"SMT60", "SMT60s"} -> {1}
      [] w = "Taurus60" -> {2}
      [] w = "TAURUS-60" -> {3}
      [] w = "xSMT130" -> {4}
      [] w = "Titan130" -> {5}
      [] w = "titan-130" -> {6}
      [] w = "TM2500" -> {7}
      [] w = "LM2500" -> {8}
      [] OTHER -> {}

Reverse(s) == [i \in DOMAIN s |-> s[Len(s) + 1 - i]]

\* C14: detect_turbine_model returns the canonical identifier of the first
\* alias in the declared order smt60, taurus60, taurus-60, smt130, titan130,
\* titan-130, tm2500, lm2500 that occurs in the text in any letter case, also
\* inside a longer word, wherever the aliases stand in the text; it returns
\* None when none occurs, and nothing else changes.
C14_FirstDeclaredAlias ==
    (probe.fn = "detect_turbine_model" /\ probe.applied) =>
        LET occurring == UNION {AliasesInWord(probe.text[i]) : i \in DOMAIN probe.text}
            first == CHOOSE i \in occurring : \A j \in occurring : i <= j
        IN  /\ occurring = {} => probe.out = NONE
            /\ occurring # {} => probe.out = TURBINE_ALIASES[first][2]
            /\ probe.out = detect_turbine_model(Reverse(probe.text))
            /\ <<TURBINE_ALIASES[1][1], TURBINE_ALIASES[2][1], TURBINE_ALIASES[3][1],
                 TURBINE_ALIASES[4][1], TURBINE_ALIASES[5][1], TURBINE_ALIASES[6][1],
                 TURBINE_ALIASES[7][1], TURBINE_ALIASES[8][1]>>
                = <<"smt60", "taurus60", "taurus-60", "smt130", "titan130",
                    "titan-130", "tm2500", "lm2500">>
            /\ state = UnsetState /\ calls = << >> /\ trace = << >>
            /\ result = NoResult /\ store = NoSessions

C14_Witness ==
    /\ probe.fn = "detect_turbine_model"
    /\ probe.applied
    /\ probe.text = <<"LM2500", "xSMT130", "TAURUS-60">>
    /\ probe.out = "SMT60"


\* C15: after ReasoningEngine, when a backend produced the text,
\* response_metadata.model_key is the key of that backend (the primary, which
\* then was the only one invoked, or the fallback) and model_display is the
\* display name of its entry; grok_invoked is true exactly when
\* reasoning_engine called the external-HTTP backend (call_grok_api), whether
\* or not a request went out; the 200 result carries this metadata.
C15_MetadataNamesProducer ==
    (pc \in {"ResponseValidator", "END"} \/ Returned200) =>
        /\ \A i \in DOMAIN BackendCalls :
                BackendCalls[i].outcome = "text" =>
                    /\ state.response_metadata.model_key = BackendCalls[i].arg
                    /\ state.response_metadata.model_display
                            = get_model_entry(BackendCalls[i].arg).display_name
                    /\ state.response_metadata.model_display # NONE
                    /\ i = Len(BackendCalls)
                    /\ BackendCalls[i].role = IF i = 1 THEN "primary" ELSE "fallback"
        /\ state.response_metadata.grok_invoked
                <=> \E i \in DOMAIN calls : calls[i].to = "grok"
        /\ Returned200 => result.body.response_metadata = state.response_metadata

\* the external backend was tried and failed, the fallback answered
C15_Witness ==
    /\ Returned200
    /\ Len(BackendCalls) = 2
    /\ BackendCalls[1].to = "grok"
    /\ BackendCalls[1].outcome = "request_exception"
    /\ BackendCalls[2].outcome = "text"
    /\ result.body.response_metadata =
            [model_key |-> "nova_pro", model_display |-> "Amazon Nova Pro",
             grok_invoked |-> TRUE]


\* the requests sent to the telemetry gateway in this invocation
GatewayCalls == SelectSeq(calls, LAMBDA c : c.to = "gateway")

TelemetryConfigured == env.DATA_FETCH_ENABLED /\ env.AGENTCORE_GATEWAY_URL # NONE

DataFetcherEntry == <<"DataFetcher: ", "RequestException">>

\* C16: with telemetry enabled and a gateway endpoint configured, a run that
\* passed DataFetcher has sent exactly one gateway request, none before and
\* no second one whatever the first gave; when that request failed (transport
\* error, timeout, HTTP error status) data_points is empty, data_fetch_status
\* is "error", errors has gained the one DataFetcher entry, and
\* KnowledgeRetriever is the next node.
C16_OneGatewayRequest ==
    /\ Len(GatewayCalls) <= 1
    /\ (TelemetryConfigured /\ "DataFetcher" \in Range(trace)) => Len(GatewayCalls) = 1
    /\ "DataFetcher" \notin Range(trace) => GatewayCalls = << >>
    /\ (GatewayCalls # << >> /\ GatewayCalls[1].outcome = "request_exception") =>
        /\ state.data_points = << >>
        /\ state.data_fetch_status = "error"
        /\ IsPrefix(<<DataFetcherEntry>>, state.errors)
        /\ Len(SelectSeq(state.errors, LAMBDA e : e = DataFetcherEntry)) = 1
        /\ pc = "KnowledgeRetriever" \/ IsPrefix(SubSeq(Stages, 1, 3), trace)

C16_Witness ==
    /\ pc = "ReasoningEngine"
    /\ TelemetryConfigured
    /\ Len(GatewayCalls) = 1
    /\ GatewayCalls[1].outcome = "request_exception"
    /\ state.errors = <<DataFetcherEntry>>
    /\ state.retrieved_documents # << >>


\* C17: with telemetry switched off or no gateway endpoint, DataFetcher
\* sends nothing, reports data_fetch_status "disabled" with no data points,
\* leaves errors as it found it and hands over to KnowledgeRetriever; and in
\* every run data_points is non-empty only with data_fetch_status "success".
C17_DisabledTelemetry ==
    [][/\ (pc = "DataFetcher" /\ ~TelemetryConfigured) =>
            /\ calls' = calls
            /\ state'.errors = state.errors
            /\ state'.data_fetch_status = "disabled"
            /\ state'.data_points = << >>
            /\ pc' = "KnowledgeRetriever"
       /\ state'.data_points # << >> => state'.data_fetch_status = "success"
       /\ (pc = "DataFetcher" /\ state'.data_fetch_status = "disabled")
            => ~TelemetryConfigured]_vars

C17_Witness ==
    /\ pc = "done"
    /\ result.statusCode = 200
    /\ env.DATA_FETCH_ENABLED
    /\ env.AGENTCORE_GATEWAY_URL = NONE
    /\ state.data_fetch_status = "disabled"
    /\ result.body.data_points = << >>
    /\ GatewayCalls = << >>
    /\ result.body.errors = << >>


\* the agent workflow turns away a payload without a query
WorkflowRejects ==
    (pc = "idle" /\ payload' # NoPayload /\ PayloadQuery(payload') = << >>) =>
        /\ pc' = "done"
        /\ result' = [statusCode |-> 400, body |-> [error |-> "Query is required"]]
        /\ trace' = << >>
        /\ calls' = << >>
        /\ UNCHANGED <<state, store, chat>>

\* POST /chat has taken a body whose query is missing, null or empty
ChatTakesNoQuery ==
    /\ chat.pc = "idle"
    /\ chat'.pc # "idle"
    /\ chat'.method = "POST"
    /\ BodyQuery(chat'.body) = << >>

\* the step of POST /chat has returned, has called no collaborator and has
\* left the pipeline and the sessions table as they were
ChatReturnsAtOnce ==
    /\ chat'.pc = "done"
    /\ chat'.calls = << >>
    /\ UNCHANGED <<pc, payload, state, trace, calls, result, store>>

\* C19: the messages of a 200 response are the messages of the request, as
\* they came and in their order, then a user turn holding the query, then an
\* assistant turn holding the response field of the same result (the text
\* after guardrail replacement and confidence gating), both with a timestamp.
C19_MessagesEcho ==
    (pc = "done" /\ result.statusCode = 200) =>
        LET input == PayloadMessages(payload)
            n == Len(input)
            out == result.body.messages
        IN  /\ Len(out) = n + 2
            /\ SubSeq(out, 1, n) = input
            /\ out[n + 1].role = "user"
            /\ out[n + 1].content = PayloadQuery(payload)
            /\ out[n + 2].role = "assistant"
            /\ out[n + 2].content = result.body.response
            /\ out[n + 2].content = state.llm_response
            /\ \A i \in {n + 1, n + 2} :
                /\ "timestamp" \in DOMAIN out[i]
                /\ out[i].timestamp # NONE

\* earlier turns came with the request, and the draft was both replaced by
\* the refusal and extended with the warning
C19_Witness ==
    /\ pc = "done"
    /\ result.statusCode = 200
    /\ PayloadMessages(payload) # << >>
    /\ Len(result.body.messages) = 4
    /\ result.body.messages[4].content = SAFE_REFUSAL \o LOW_CONFIDENCE_WARNING
    /\ result.body.messages[3].content = <<"oil", "pressure", "SMT60">>


\* C20: the step of the ResponseValidator. Unless the guardrail's verdict is
\* non-compliant, the text it hands on is the draft, to which only the
\* confidence gate may add its warning. Without a guardrail id the outcome is
\* "skipped" and the guardrail is not called; when the evaluation raises, the
\* outcome is "error", "Guardrail error: ..." is appended to errors, and the
\* draft goes through the confidence gate.
VerdictNonCompliant(guardrail_result) ==
    /\ guardrail_result.status = "applied"
    /\ guardrail_result.outputs # << >>
    /\ guardrail_result.outputs[1].complianceStatus # "COMPLIANT"

Gated(text, score) ==
    IF score < env.MIN_CONFIDENCE_SCORE THEN text \o LOW_CONFIDENCE_WARNING
    ELSE text

GuardrailCallsOf(cs) == SelectSeq(cs, LAMBDA c : c.to = "guardrail")

ValidatorStep ==
    LET draft == state.llm_response
        verdict == state'.guardrail_result
        score == state'.confidence_score
        asked == GuardrailCallsOf(calls')
    IN  /\ ~VerdictNonCompliant(verdict) =>
              state'.llm_response = Gated(draft, score)
        /\ env.GUARDRAIL_ID = NONE <=> verdict.status = "skipped"
        /\ verdict.status = "skipped" =>
              /\ calls' = calls
              /\ SubSeq(state'.errors, 1, Len(state.errors)) = state.errors
              /\ Len(state'.errors) = Len(state.errors)
                    + (IF score < env.MIN_CONFIDENCE_SCORE THEN 1 ELSE 0)
        /\ env.GUARDRAIL_ID # NONE => Len(asked) = 1
        /\ (asked # << >> /\ asked[1].outcome = "exception") <=> verdict.status = "error"
        /\ verdict.status = "error" =>
              /\ Len(state'.errors) > Len(state.errors)
              /\ SubSeq(state'.errors, 1, Len(state.errors)) = state.errors
              /\ state'.errors[Len(state.errors) + 1][1] = "Guardrail error: "
              /\ Len(state'.errors) = Len(state.errors)
                    + (IF score < env.MIN_CONFIDENCE_SCORE THEN 2 ELSE 1)
              /\ state'.llm_response = Gated(draft, score)

C20_GuardrailLeavesDraft ==
    [][pc = "ResponseValidator" => ValidatorStep]_vars

\* the evaluation raised and the draft is returned as it was written
C20_Witness ==
    /\ pc = "done"
    /\ result.statusCode = 200
    /\ result.body.guardrail_result.status = "error"
    /\ result.body.response = <<"draft answer">>
    /\ result.body.errors = << <<"Guardrail error: ", "exc">> >>


\* C21: the fallback key is null or a configured key other than the primary;
\* it is the configured fallback_model if that is usable, else "nova_pro" if
\* that is usable, else the configured default_model if that is usable, and
\* null only when none of the three is (usable: has an entry and is not the
\* primary).
ResolveApplied == probe.fn = "resolve_model_key" /\ probe.applied

Usable(key, primary_key) ==
    /\ key # NONE
    /\ key # primary_key
    /\ \E i \in DOMAIN env.MODEL_CONFIG.models : env.MODEL_CONFIG.models[i].key = key

C21_FallbackKeyDistinct ==
    ResolveApplied =>
        LET p == probe.primary_key
            out == probe.fallback_key
            fk == env.MODEL_CONFIG.fallback_model
            dk == env.MODEL_CONFIG.default_model
        IN  /\ out # NONE => Usable(out, p)
            /\ Usable(fk, p) => out = fk
            /\ (~Usable(fk, p) /\ Usable("nova_pro", p)) => out = "nova_pro"
            /\ (~Usable(fk, p) /\ ~Usable("nova_pro", p) /\ Usable(dk, p)) => out = dk
            /\ (~Usable(fk, p) /\ ~Usable("nova_pro", p) /\ ~Usable(dk, p)) => out = NONE

\* the configured fallback is the primary itself, the baseline has no entry,
\* and the default is taken
C21_Witness ==
    /\ ResolveApplied
    /\ probe.primary_key = "grok"
    /\ env.MODEL_CONFIG.fallback_model = "grok"
    /\ env.MODEL_CONFIG.default_model = "claude_4_5"
    /\ env.MODEL_CONFIG.models = <<GrokEntry, ClaudeEntry>>
    /\ probe.fallback_key = "claude_4_5"

\* C22: the primary key is AGENT_MODEL_KEY when set and configured, else
\* default_model when configured, else the key of the first configured
\* entry, else "nova_pro"; with at least one configured model it names a
\* configured model.
Configured(key) ==
    /\ key # NONE
    /\ \E i \in DOMAIN env.MODEL_CONFIG.models : env.MODEL_CONFIG.models[i].key = key

C22_PrimaryKeyResolution ==
    ResolveApplied =>
        LET out == probe.model_key
            ok == env.AGENT_MODEL_KEY
            dk == env.MODEL_CONFIG.default_model
            ms == env.MODEL_CONFIG.models
        IN  /\ Configured(ok) => out = ok
            /\ (~Configured(ok) /\ Configured(dk)) => out = dk
            /\ (~Configured(ok) /\ ~Configured(dk) /\ ms # << >>) => out = ms[1].key
            /\ ms = << >> => out = "nova_pro"
            /\ ms # << >> => Configured(out)

\* an override without an entry and a default without an entry: the first
\* entry of the file is taken
C22_Witness ==
    /\ ResolveApplied
    /\ env.AGENT_MODEL_KEY = "ghost"
    /\ env.MODEL_CONFIG.default_model = "nova_pro"
    /\ env.MODEL_CONFIG.models = <<GrokEntry, ClaudeEntry>>
    /\ probe.model_key = "grok"


\* C23: the history handed to a reasoning backend is the last 5 prior turns
\* of messages (all of them when there are fewer), in their order.
HistoryApplied == probe.fn = "conversation_history" /\ probe.applied

C23_HistoryLastFive ==
    HistoryApplied =>
        /\ Len(probe.bedrock) <= 5
        /\ probe.bedrock = format_conversation_history(LastN(probe.messages, 5))
        /\ Len(probe.grok) <= 5
        /\ probe.grok = LastN(probe.messages, 5)

\* C24 as claimed: every history entry for the managed-LLM backend has role
\* "user" or "assistant"; a role that is "user" or "assistant" up to case
\* keeps that role in lower case, any role outside {user, assistant} is
\* sent as "assistant"; there is one entry per turn, in the order of the
\* turns, with the turn's text.
C24_RolesCoerced ==
    HistoryApplied =>
        /\ Len(probe.bedrock) = Len(probe.messages)
        /\ \A i \in DOMAIN probe.messages :
            LET msg == probe.messages[i]
                sent == probe.bedrock[i]
            IN  /\ sent.role \in {"user", "assistant"}
                /\ sent.text = msg.content
                /\ "role" \in DOMAIN msg =>
                      sent.role = IF msg.role \in {"user", "User"} THEN "user"
                                  ELSE "assistant"

\* C24 amended: every history entry for the managed-LLM backend has role
\* "user" or "assistant"; a role that is "user" or "assistant" up to case
\* keeps that role in lower case, a turn whose role is the empty string or
\* that has no role is sent as "user", and any other role (for example
\* "system", or null) is sent as "assistant"; there is one entry per turn,
\* in the order of the turns, with the turn's text.
C24_RolesCoercedUnlessEmpty ==
    HistoryApplied =>
        /\ Len(probe.bedrock) = Len(probe.messages)
        /\ \A i \in DOMAIN probe.messages :
            LET msg == probe.messages[i]
                sent == probe.bedrock[i]
            IN  /\ sent.role \in {"user", "assistant"}
                /\ sent.text = msg.content
                /\ sent.role =
                    IF "role" \notin DOMAIN msg \/ msg.role = "" THEN "user"
                    ELSE IF msg.role \in {"user", "User"} THEN "user"
                    ELSE "assistant"

\* a "system" turn and a turn with an empty role after a "User" turn
C24_Witness ==
    /\ HistoryApplied
    /\ Len(probe.messages) = 3
    /\ \A i \in 1..3 : "role" \in DOMAIN probe.messages[i]
    /\ probe.messages[1].role = "User"
    /\ probe.messages[2].role = "system"
    /\ probe.messages[3].role = ""
    /\ probe.bedrock = <<[role |-> "user", text |-> <<"turn", "1">>],
                         [role |-> "assistant", text |-> <<"turn", "2">>],
                         [role |-> "user", text |-> <<"turn", "3">>]>>


\* C25: the recent-turn context of enrich_query holds the contents of the
\* last 3 user turns of messages (of all user turns when there are fewer),
\* in their order, however many other turns lie between them.
EnrichApplied == probe.fn = "enrich_query" /\ probe.applied

UserTurnsOf(messages) ==
    SelectSeq(messages, LAMBDA msg : "role" \in DOMAIN msg /\ msg.role = "user")

C25_LastThreeUserTurns ==
    EnrichApplied =>
        LET wanted == LastN(UserTurnsOf(probe.messages), 3)
        IN  probe.recent_user_context = [i \in DOMAIN wanted |-> wanted[i].content]


\* C26: for each hit the retriever asks for the chunks window before and
\* window after it by chunk index and never for the hit itself (the window
\* is 1 in the pipeline), so a hit gets the adjacent chunks the index holds,
\* at most 2 * window of them; a hit whose neighbor request failed has no
\* neighbors, and the stage still returns every hit with its citation and
\* the assembled context, without an entry in errors.
MgetCallsOf(cs) == SelectSeq(cs, LAMBDA c : c.to = "mget")

OffsetsAsked(window) ==
    \A c \in IndexChunks :
        LET ids == NeighborIds(IndexedSource, c, window)
        IN  /\ Len(ids) = 2 * window
            /\ \A k \in DOMAIN ids :
                /\ ids[k][1] = Dashed(IndexedSource)
                /\ ids[k][2] # c
                /\ ids[k][2] - c \in (0 - window)..window
            /\ \A o \in ((0 - window)..window) \ {0} :
                \E k \in DOMAIN ids : ids[k][2] = c + o

\* the indexed chunks next to chunk c, the one before first
AdjacentChunks(c) ==
    LET indexed == SelectSeq(<<c - 1, c + 1>>, LAMBDA j : j \in IndexChunks)
    IN  [k \in DOMAIN indexed |-> IndexChunk(indexed[k])]

C26_NeighborWindow ==
    pc = "ReasoningEngine" =>
        LET docs == state.retrieved_documents
            asked == MgetCallsOf(calls)
            context == state.hierarchical_context
            Marks(piece) == Cardinality({k \in DOMAIN context : context[k] = piece})
        IN  /\ \A window \in 0..2 : OffsetsAsked(window)
            /\ Len(asked) = Len(docs)
            /\ Len(state.citations) = Len(docs)
            /\ \A i \in DOMAIN docs :
                LET c == docs[i].metadata.chunk_index
                IN  /\ docs[i].content = IndexChunk(c).text
                    /\ state.citations[i].source = docs[i].source
                    /\ asked[i].ids = << <<"manuals-SMT60-guide.pdf", c - 1>>,
                                         <<"manuals-SMT60-guide.pdf", c + 1>> >>
                    /\ Len(docs[i].neighbors) <= 2
                    /\ docs[i].neighbors = IF asked[i].outcome = "fail" THEN << >>
                                           ELSE AdjacentChunks(c)
            /\ docs # << >> =>
                  /\ context \notin {NO_DOCS_CONTEXT, UNAVAILABLE_CONTEXT, FAILED_CONTEXT}
                  /\ Marks("[Doc") = Len(docs)
                  /\ Marks("[Neighbor]")
                        = SeqSum([i \in DOMAIN docs |-> Len(docs[i].neighbors)])
                  /\ \A k \in DOMAIN state.errors :
                        state.errors[k][1] # "KnowledgeRetriever: "

\* two hits: the neighbor request of the first failed, the second has the
\* chunk before it and the chunk after it
C26_Witness ==
    /\ pc = "ReasoningEngine"
    /\ Len(state.retrieved_documents) = 2
    /\ MgetCallsOf(calls)[1].outcome = "fail"
    /\ state.retrieved_documents[1].neighbors = << >>
    /\ state.retrieved_documents[2].neighbors = <<IndexChunk(0), IndexChunk(2)>>
    /\ Len(state.citations) = 2


\* C27: when a POST /chat request returns 200 and has saved its session, the
\* history stored for the session is what was stored just before, with no
\* turn taken away, followed by the user turn and the assistant turn of
\* this request; so the turns of every request that returned 200 stay in
\* the stored history, whether the requests overlap or not and whether the
\* load succeeded or not.
ChatReturns200 ==
    /\ chat.pc = "invoking"
    /\ chat'.pc = "done"
    /\ chat'.result.statusCode = 200
    /\ chat'.calls[Len(chat'.calls)].op = "put_item"
    /\ chat'.calls[Len(chat'.calls)].outcome = "ok"

C27_NoTurnLost ==
    [][ChatReturns200 =>
          LET session_id == chat.payload.session_id
              before == store[session_id]
              after == store'[session_id]
          IN  /\ IsPrefix(before, after)
              /\ Len(after) = Len(before) + 2
              /\ after[Len(after) - 1].content = chat.payload.query
              /\ after[Len(after)].content = chat'.result.body.response]_vars


\* C28: in one request ReasoningEngine invokes at most two backends, one
\* primary and at most one fallback after it; a fallback is invoked only
\* when the primary gave no text, and always through the managed-LLM
\* backend, so the external-HTTP backend is invoked at most once and only
\* as primary.
GrokCallsOf(cs) == SelectSeq(cs, LAMBDA c : c.to = "grok")

C28_AtMostOneFallback ==
    /\ Len(BackendCalls) <= 2
    /\ Len(PrimaryCalls) <= 1
    /\ Len(FallbackCalls) <= 1
    /\ Len(GrokCallsOf(calls)) <= 1
    /\ \A i \in DOMAIN BackendCalls :
          BackendCalls[i].to = "grok" => BackendCalls[i].role = "primary"
    /\ FallbackCalls # << >> =>
          /\ Len(BackendCalls) = 2
          /\ BackendCalls[1].role = "primary"
          /\ BackendCalls[1].outcome # "text"
          /\ BackendCalls[2] = FallbackCalls[1]
          /\ FallbackCalls[1].to = "bedrock"
          /\ trace[Len(trace)] \in {"ReasoningEngine", "ResponseValidator"}
    /\ (BackendCalls # << >> /\ BackendCalls[1].outcome = "text") =>
          Len(BackendCalls) = 1

\* the primary nova_pro raised and the fallback key names the Grok entry:
\* the entry went to the managed-LLM path, nothing was sent to Grok
C28_Witness ==
    /\ pc = "ResponseValidator"
    /\ Len(BackendCalls) = 2
    /\ BackendCalls[1].arg = "nova_pro"
    /\ BackendCalls[1].outcome = "exception"
    /\ FallbackCalls[1].arg = "grok"
    /\ FallbackCalls[1].to = "bedrock"
    /\ FallbackCalls[1].outcome = "not_sent"
    /\ ~state.response_metadata.grok_invoked
    /\ state.llm_response = FAILURE_SENTINEL


\* C29: under a non-compliant guardrail verdict the final response is fixed
\* by the verdict and the confidence gate alone: whatever draft the
\* ResponseValidator was handed (generated text, an empty text, the failure
\* text), it hands on the safe refusal, followed by the low-confidence warning
\* exactly when the score is below the minimum, and the 200 result carries
\* that text both as response and as the content of the assistant turn.
RefusalText(score) ==
    IF score < env.MIN_CONFIDENCE_SCORE THEN SAFE_REFUSAL \o LOW_CONFIDENCE_WARNING
    ELSE SAFE_REFUSAL

RefusalStep ==
    (pc = "ResponseValidator" /\ VerdictNonCompliant(state'.guardrail_result)) =>
        /\ state'.llm_response = RefusalText(state'.confidence_score)
        /\ \A i \in DOMAIN state.llm_response :
              state.llm_response[i] \notin Range(state'.llm_response)

RefusalReturned ==
    (pc = "END" /\ VerdictNonCompliant(state.guardrail_result)) =>
        /\ result'.body.response = RefusalText(state.confidence_score)
        /\ Last(result'.body.messages).role = "assistant"
        /\ Last(result'.body.messages).content = RefusalText(state.confidence_score)

C29_RefusalIgnoresDraft == [][RefusalStep /\ RefusalReturned]_vars

\* the primary backend had written a draft, the verdict was non-compliant and
\* the score was at least the minimum: response and assistant turn are the
\* bare refusal
C29_Witness ==
    /\ pc = "done"
    /\ result.statusCode = 200
    /\ Len(PrimaryCalls) = 1
    /\ PrimaryCalls[1].outcome = "text"
    /\ FallbackCalls = << >>
    /\ result.body.guardrail_result.status = "applied"
    /\ result.body.guardrail_result.outputs = <<[complianceStatus |-> "NON_COMPLIANT"]>>
    /\ result.body.confidence_score >= env.MIN_CONFIDENCE_SCORE
    /\ result.body.response = SAFE_REFUSAL
    /\ Last(result.body.messages).content = SAFE_REFUSAL


\* C30: with the default minimum confidence 0.75, whenever the
\* ResponseValidator ran on empty citations (no hits, retrieval not
\* configured, retrieval failed), confidence_score is 0.4 without and 0.45
\* with telemetry data points, the response ends with the low-confidence
\* warning and the threshold violation is the last entry of errors; the 200
\* result carries the same response and errors.
DEFAULT_MIN_CONFIDENCE == 750

C30_NoCitationsAlwaysWarned ==
    /\ (pc = "END" /\ env.MIN_CONFIDENCE_SCORE = DEFAULT_MIN_CONFIDENCE
            /\ state.citations = << >>) =>
        /\ state.confidence_score =
              (IF state.data_points = << >> THEN 400 ELSE 450)
        /\ Len(state.llm_response) >= 2
        /\ <<Last(state.llm_response)>> = LOW_CONFIDENCE_WARNING
        /\ state.errors # << >>
        /\ Last(state.errors) = ThresholdEntry(state.confidence_score)
    /\ (pc = "done" /\ result.statusCode = 200
            /\ env.MIN_CONFIDENCE_SCORE = DEFAULT_MIN_CONFIDENCE
            /\ result.body.citations = << >>) =>
        /\ result.body.confidence_score \in {400, 450}
        /\ <<Last(result.body.response)>> = LOW_CONFIDENCE_WARNING
        /\ Last(result.body.errors) = ThresholdEntry(result.body.confidence_score)

\* retrieval failed, telemetry was present, the backend wrote a draft and the
\* guardrail passed it: 0.45, the draft with the warning, and the violation
\* recorded after the retrieval failure
C30_Witness ==
    /\ pc = "done"
    /\ result.statusCode = 200
    /\ env.MIN_CONFIDENCE_SCORE = DEFAULT_MIN_CONFIDENCE
    /\ SearchRaised
    /\ result.body.citations = << >>
    /\ result.body.data_points # << >>
    /\ result.body.confidence_score = 450
    /\ result.body.response = <<"draft answer">> \o LOW_CONFIDENCE_WARNING
    /\ Len(result.body.errors) = 2
    /\ Last(result.body.errors) = ThresholdEntry(450)


====
